---- MODULE Spec2Model ----
(***************************************************************************)
(* Model of the query router (baseapp/queryrouter.go) and of the generated *)
(* wire codec of the feegrant Msg service (cosmos/feegrant/v1beta1/tx.pb.go)*)
(*                                                                         *)
(* Strings are sequences of one-character strings, byte slices are         *)
(* sequences of 0..255 wrapped in a record that keeps Go's nil / empty     *)
(* distinction, and 64-bit integers are vectors of ten 7-bit groups (the   *)
(* tenth holds bit 63 only), so that the varint arithmetic keeps its width.*)
(* Go's int is taken to be 64 bits wide.                                   *)
(***************************************************************************)
EXTENDS Integers, Sequences, FiniteSets, TLC

VARIABLES
    routes,   \* QueryRouter.routes: map[string]sdk.Querier
    last,     \* outcome of the last router operation (what a caller observes)
    msg,      \* codec: the message being marshalled
    dAtA,     \* codec: the buffer MarshalToSizedBuffer writes into
    i,        \* codec: the write cursor of MarshalToSizedBuffer
    pc,       \* codec: position in Marshal / Unmarshal
    out,      \* codec: what Marshal returned and what Unmarshal produced
    decoder   \* Unmarshal and skipTx run step by step: their frames

vars == <<routes, last, msg, dAtA, i, pc, out, decoder>>
routerVars == <<routes, last>>
codecVars == <<msg, dAtA, i, pc, out, decoder>>

----------------------------------------------------------------------------
(* Strings                                                                 *)

Letters ==
    {"a","b","c","d","e","f","g","h","i","j","k","l","m",
     "n","o","p","q","r","s","t","u","v","w","x","y","z",
     "A","B","C","D","E","F","G","H","I","J","K","L","M",
     "N","O","P","Q","R","S","T","U","V","W","X","Y","Z"}

Digits == {"0","1","2","3","4","5","6","7","8","9"}

\* isAlphaNumeric: "path contains [no] non-alphanumeric characters".
isAlphaNumeric(path) ==
    \A k \in 1..Len(path) : path[k] \in Letters \cup Digits

\* strings.Split(method, "/"): the segments between the separators.
RECURSIVE SplitFrom(_, _, _)
SplitFrom(s, k, cur) ==
    IF k > Len(s) THEN <<cur>>
    ELSE IF s[k] = "/" THEN <<cur>> \o SplitFrom(s, k + 1, <<>>)
    ELSE SplitFrom(s, k + 1, Append(cur, s[k]))

Split(s) == SplitFrom(s, 1, <<>>)

----------------------------------------------------------------------------
(* 64-bit integers as ten 7-bit groups, least significant first            *)

Groups == 1..10

Zero64 == <<0, 0, 0, 0, 0, 0, 0, 0, 0, 0>>

\* uint64(n) of a small non-negative int.
RECURSIVE FromIntAt(_, _)
FromIntAt(n, k) ==
    IF k > 10 THEN <<>>
    ELSE <<IF k = 10 THEN n % 2 ELSE n % 128>> \o FromIntAt(n \div 128, k + 1)

FromInt(n) == FromIntAt(n, 1)

\* The groups above the k-th are all zero.
ZeroAbove(v, k) == \A j \in Groups : j > k => v[j] = 0

\* The value of v when it is below 2^21, else 2^21 (a number above every
\* buffer length of the model, so that comparisons with a length are exact).
ToInt(v) ==
    IF ZeroAbove(v, 3) THEN v[1] + 128 * v[2] + 16384 * v[3] ELSE 2097152

\* Two's complement sign of int(v): bit 63.
IsNeg(v) == v[10] = 1

\* n + v in 64-bit wrapping arithmetic, n a small non-negative int.
RECURSIVE AddAt(_, _, _)
AddAt(carry, v, k) ==
    IF k > 10 THEN <<>>
    ELSE LET s == v[k] + carry
         IN  IF k = 10 THEN <<s % 2>>
             ELSE <<s % 128>> \o AddAt(s \div 128, v, k + 1)

AddInt64(n, v) == AddAt(n, v, 1)

\* v >> 7
Shr7(v) == SubSeq(v, 2, 10) \o <<0>>

\* math_bits.Len64(x): the number of bits needed to represent x.
BitLen(g) ==
    IF g = 0 THEN 0 ELSE IF g < 2 THEN 1 ELSE IF g < 4 THEN 2
    ELSE IF g < 8 THEN 3 ELSE IF g < 16 THEN 4 ELSE IF g < 32 THEN 5
    ELSE IF g < 64 THEN 6 ELSE 7

RECURSIVE Len64From(_, _)
Len64From(x, k) ==
    IF k = 0 THEN 0
    ELSE IF x[k] # 0 THEN 7 * (k - 1) + BitLen(x[k])
    ELSE Len64From(x, k - 1)

Len64(x) == Len64From(x, 10)

\* x | 1
Or1(x) == [x EXCEPT ![1] = IF x[1] % 2 = 0 THEN x[1] + 1 ELSE x[1]]

\* A size computation that takes every varint for one byte.
sovTxOne(x) == 1

\* sovTx(x): (math_bits.Len64(x|1) + 6) / 7
sovTx(x) == (Len64(Or1(x)) + 6) \div 7

----------------------------------------------------------------------------
(* Byte slices and messages                                                *)

NilBytes == [nil |-> TRUE, b |-> <<>>]

Bytes(s) == [nil |-> FALSE, b |-> s]

NilAny == [type |-> "Any", nil |-> TRUE, TypeUrl |-> <<>>, Value |-> NilBytes]

AnyOf(t, v) == [type |-> "Any", nil |-> FALSE, TypeUrl |-> t, Value |-> v]

\* MsgGrantFeeAllowance{} and MsgRevokeFeeAllowance{} after Reset / new().
NewGrant == [type |-> "Grant", Granter |-> NilBytes, Grantee |-> NilBytes,
             Allowance |-> NilAny]

NewRevoke == [type |-> "Revoke", Granter |-> NilBytes, Grantee |-> NilBytes]

NewResponse == [type |-> "Response"]

----------------------------------------------------------------------------
(* Encoder                                                                 *)

\* dAtA[idx] = b; an index outside the buffer panics.
Put(st, idx, b) ==
    IF idx < 0 \/ idx >= Len(st.dAtA) THEN [st EXCEPT !.panic = TRUE]
    ELSE [st EXCEPT !.dAtA[idx + 1] = b]

\* copy(dAtA[at:], src): slicing outside the buffer panics; copy itself writes
\* min(len(dAtA) - at, len(src)) bytes.
Copy(st, at, src) ==
    IF at < 0 \/ at > Len(st.dAtA) THEN [st EXCEPT !.panic = TRUE]
    ELSE IF at + Len(src) > Len(st.dAtA)
    THEN [st EXCEPT !.dAtA = SubSeq(st.dAtA, 1, at)
                             \o SubSeq(src, 1, Len(st.dAtA) - at)]
    ELSE [st EXCEPT !.dAtA = SubSeq(st.dAtA, 1, at) \o src
                             \o SubSeq(st.dAtA, at + Len(src) + 1, Len(st.dAtA))]

\* An encoder loop that never sets the continuation bit.
RECURSIVE encodeVarintLoopPlain(_, _, _)
encodeVarintLoopPlain(st, offset, v) ==
    IF ~ZeroAbove(v, 1)
    THEN encodeVarintLoopPlain(Put(st, offset, v[1]), offset + 1, Shr7(v))
    ELSE Put(st, offset, v[1])

\* for v >= 1<<7 { dAtA[offset] = uint8(v&0x7f | 0x80); v >>= 7; offset++ }
\* dAtA[offset] = uint8(v)
RECURSIVE encodeVarintLoop(_, _, _)
encodeVarintLoop(st, offset, v) ==
    IF ~ZeroAbove(v, 1)
    THEN encodeVarintLoop(Put(st, offset, v[1] + 128), offset + 1, Shr7(v))
    ELSE Put(st, offset, v[1])

\* encodeVarintTx(dAtA, offset, v): writes v ending just before offset and
\* returns the position of its first byte (kept in st.i).
encodeVarintTx(st, offset, v) ==
    LET base == offset - sovTx(v)
    IN  [encodeVarintLoop(st, base, v) EXCEPT !.i = base]

\* if len(m.F) > 0 { i -= len; copy; i = encodeVarintTx(..len..); i--; dAtA[i] = tag }
WriteBytesField(st, field, tag) ==
    IF Len(field) > 0
    THEN LET i1 == st.i - Len(field)
             s1 == Copy([st EXCEPT !.i = i1], i1, field)
             s2 == encodeVarintTx(s1, i1, FromInt(Len(field)))
             i3 == s2.i - 1
         IN  Put([s2 EXCEPT !.i = i3], i3, tag)
    ELSE st

\* Any.Size and Any.MarshalToSizedBuffer: a message of a string and a byte field.
AnySize(a) ==
    (IF Len(a.TypeUrl) > 0
     THEN 1 + Len(a.TypeUrl) + sovTx(FromInt(Len(a.TypeUrl))) ELSE 0)
    + (IF Len(a.Value.b) > 0
       THEN 1 + Len(a.Value.b) + sovTx(FromInt(Len(a.Value.b))) ELSE 0)

AnyMarshalToSizedBuffer(st, a) ==
    WriteBytesField(WriteBytesField(st, a.Value.b, 18), a.TypeUrl, 10)

\* if m.Allowance != nil { size := marshal into dAtA[:i]; i -= size;
\*                         i = encodeVarintTx(.., size); i--; dAtA[i] = 0x1a }
WriteAllowance(st, a) ==
    IF ~a.nil
    THEN LET s1 == AnyMarshalToSizedBuffer(st, a)
             size == st.i - s1.i
             s2 == encodeVarintTx(s1, s1.i, FromInt(size))
             i3 == s2.i - 1
         IN  Put([s2 EXCEPT !.i = i3], i3, 26)
    ELSE st

GrantSize(m) ==
    (IF Len(m.Granter.b) > 0
     THEN 1 + Len(m.Granter.b) + sovTx(FromInt(Len(m.Granter.b))) ELSE 0)
    + (IF Len(m.Grantee.b) > 0
       THEN 1 + Len(m.Grantee.b) + sovTx(FromInt(Len(m.Grantee.b))) ELSE 0)
    + (IF ~m.Allowance.nil
       THEN 1 + AnySize(m.Allowance) + sovTx(FromInt(AnySize(m.Allowance)))
       ELSE 0)

RevokeSize(m) ==
    (IF Len(m.Granter.b) > 0
     THEN 1 + Len(m.Granter.b) + sovTx(FromInt(Len(m.Granter.b))) ELSE 0)
    + (IF Len(m.Grantee.b) > 0
       THEN 1 + Len(m.Grantee.b) + sovTx(FromInt(Len(m.Grantee.b))) ELSE 0)

\* A size that counts a tag and a length byte for a byte field that is
\* present but empty.
SizeOfPresent(m) ==
    (IF m.type = "Grant" THEN GrantSize(m)
     ELSE IF m.type = "Revoke" THEN RevokeSize(m) ELSE 0)
    + (IF m.type \in {"Grant", "Revoke"} /\ m.Granter = [nil |-> FALSE, b |-> <<>>]
       THEN 2 ELSE 0)
    + (IF m.type \in {"Grant", "Revoke"} /\ m.Grantee = [nil |-> FALSE, b |-> <<>>]
       THEN 2 ELSE 0)

\* m.Size()
Size(m) ==
    CASE m.type = "Grant" -> GrantSize(m)
      [] m.type = "Revoke" -> RevokeSize(m)
      [] OTHER -> 0

\* n bytes b.
RECURSIVE Repeat(_, _)
Repeat(b, n) ==
    IF n = 0 THEN <<>>
    ELSE IF n % 2 = 0 THEN Repeat(b, n \div 2) \o Repeat(b, n \div 2)
    ELSE Append(Repeat(b, n - 1), b)

\* make([]byte, size) with the cursor at its end.
NewBuffer(size) == [dAtA |-> Repeat(0, size), i |-> size, panic |-> FALSE]

GrantMarshalToSizedBuffer(st, m) ==
    WriteBytesField(
        WriteBytesField(WriteAllowance(st, m.Allowance), m.Grantee.b, 18),
        m.Granter.b, 10)

RevokeMarshalToSizedBuffer(st, m) ==
    WriteBytesField(WriteBytesField(st, m.Grantee.b, 18), m.Granter.b, 10)

MarshalToSizedBuffer(st, m) ==
    CASE m.type = "Grant" -> GrantMarshalToSizedBuffer(st, m)
      [] m.type = "Revoke" -> RevokeMarshalToSizedBuffer(st, m)
      [] OTHER -> st

\* Marshal: size := m.Size(); dAtA = make([]byte, size);
\* n := m.MarshalToSizedBuffer(dAtA[:size]); return dAtA[:n]
Marshal(m) ==
    LET st == MarshalToSizedBuffer(NewBuffer(Size(m)), m)
        n == Len(st.dAtA) - st.i
    IN  IF st.panic \/ n < 0 \/ n > Len(st.dAtA) THEN <<>>
        ELSE SubSeq(st.dAtA, 1, n)

----------------------------------------------------------------------------
(* Decoder                                                                 *)

ErrNone == "nil"
ErrIntOverflowTx == "proto: integer overflow"
ErrInvalidLengthTx == "proto: negative length found during unmarshaling"
ErrUnexpectedEndOfGroupTx == "proto: unexpected end of group"
ErrUnexpectedEOF == "unexpected EOF"
ErrEndGroup == "proto: wiretype end group for non-group"
ErrIllegalTag == "proto: illegal tag"
ErrWrongWireType == "proto: wrong wireType"
ErrIllegalWireType == "proto: illegal wireType"

\* for shift := uint(0); ; shift += 7 { ... v |= uint64(b&0x7F) << shift ... }
\* with k = shift / 7; bits shifted past bit 63 are lost.
RECURSIVE readVarint(_, _, _, _)
readVarint(buf, iNdEx, k, acc) ==
    IF 7 * k >= 64 THEN [err |-> ErrIntOverflowTx, v |-> acc, iNdEx |-> iNdEx]
    ELSE IF iNdEx >= Len(buf)
    THEN [err |-> ErrUnexpectedEOF, v |-> acc, iNdEx |-> iNdEx]
    ELSE IF buf[iNdEx + 1] < 128
    THEN [err |-> ErrNone, iNdEx |-> iNdEx + 1,
          v |-> [acc EXCEPT ![k + 1] = IF k = 9 THEN buf[iNdEx + 1] % 2
                                       ELSE buf[iNdEx + 1]]]
    ELSE readVarint(buf, iNdEx + 1, k + 1,
             [acc EXCEPT ![k + 1] = IF k = 9 THEN buf[iNdEx + 1] % 2
                                    ELSE buf[iNdEx + 1] % 128])

\* wireType := int(wire & 0x7)
WireType(wire) == wire[1] % 8

\* fieldNum := int32(wire >> 3): bits 3..34 of wire, bit 34 being the sign.
FieldNum(wire) ==
    (wire[1] \div 8) + 16 * wire[2] + 2048 * wire[3] + 262144 * wire[4]
    + 33554432 * (IF wire[5] >= 64 THEN wire[5] - 128 ELSE wire[5])

\* case 0 of skipTx: consume bytes up to one without the continuation bit.
RECURSIVE skipVarint(_, _, _)
skipVarint(buf, iNdEx, k) ==
    IF 7 * k >= 64 THEN [err |-> ErrIntOverflowTx, at |-> Zero64]
    ELSE IF iNdEx >= Len(buf) THEN [err |-> ErrUnexpectedEOF, at |-> Zero64]
    ELSE IF buf[iNdEx + 1] < 128 THEN [err |-> ErrNone, at |-> FromInt(iNdEx + 1)]
    ELSE skipVarint(buf, iNdEx + 1, k + 1)

\* case 2 of skipTx, after the length varint ln is read:
\* if length < 0 { return 0, ErrInvalidLengthTx }; iNdEx += length
skipLength(ln) ==
    IF ln.err # ErrNone THEN [err |-> ln.err, at |-> Zero64]
    ELSE IF IsNeg(ln.v) THEN [err |-> ErrInvalidLengthTx, at |-> Zero64]
    ELSE [err |-> ErrNone, at |-> AddInt64(ln.iNdEx, ln.v)]

\* The switch of skipTx on the wire type of a tag that ended at iNdEx: the
\* cursor after the field (64 bits wide), or an error.
skipSwitch(buf, iNdEx, wireType, depth) ==
    CASE wireType = 0 -> skipVarint(buf, iNdEx, 0)
      [] wireType = 1 -> [err |-> ErrNone, at |-> FromInt(iNdEx + 8)]
      [] wireType = 2 -> skipLength(readVarint(buf, iNdEx, 0, Zero64))
      [] wireType = 3 -> [err |-> ErrNone, at |-> FromInt(iNdEx)]
      [] wireType = 4 ->
           IF depth = 0 THEN [err |-> ErrUnexpectedEndOfGroupTx, at |-> Zero64]
           ELSE [err |-> ErrNone, at |-> FromInt(iNdEx)]
      [] wireType = 5 -> [err |-> ErrNone, at |-> FromInt(iNdEx + 4)]
      [] OTHER -> [err |-> ErrIllegalWireType, at |-> Zero64]

\* case 3: depth++; case 4: depth--
skipDepth(wireType, depth) ==
    IF wireType = 3 THEN depth + 1
    ELSE IF wireType = 4 THEN depth - 1 ELSE depth

SkipFail(e) == [err |-> e, n |-> Zero64]

RECURSIVE skipLoop(_, _, _)

\* After the switch: if iNdEx < 0 { error }; if depth == 0 { return iNdEx, nil };
\* else the next iteration of the loop.
skipAfter(buf, sw, depth) ==
    IF sw.err # ErrNone THEN SkipFail(sw.err)
    ELSE IF IsNeg(sw.at) THEN SkipFail(ErrInvalidLengthTx)
    ELSE IF depth = 0 THEN [err |-> ErrNone, n |-> sw.at]
    ELSE skipLoop(buf, ToInt(sw.at), depth)

\* One iteration of skipTx's loop, the tag varint being read.
skipField(buf, tag, depth) ==
    IF tag.err # ErrNone THEN SkipFail(tag.err)
    ELSE skipAfter(buf, skipSwitch(buf, tag.iNdEx, WireType(tag.v), depth),
                   skipDepth(WireType(tag.v), depth))

\* for iNdEx < l { ... }; return 0, io.ErrUnexpectedEOF
skipLoop(buf, iNdEx, depth) ==
    IF iNdEx >= Len(buf) THEN SkipFail(ErrUnexpectedEOF)
    ELSE skipField(buf, readVarint(buf, iNdEx, 0, Zero64), depth)

\* skipTx(dAtA): the length of the first field of dAtA (a 64-bit int), or an error.
skipTx(buf) == skipLoop(buf, 0, 0)

\* dAtA[from:]
SliceFrom(buf, from) == SubSeq(buf, from + 1, Len(buf))

\* if (iNdEx + skippy) < 0 { ErrInvalidLengthTx }
\* if (iNdEx + skippy) > l { io.ErrUnexpectedEOF }; iNdEx += skippy
SkipAdvance(buf, preIndex, sum) ==
    IF IsNeg(sum) THEN [err |-> ErrInvalidLengthTx, iNdEx |-> preIndex]
    ELSE IF ToInt(sum) > Len(buf) THEN [err |-> ErrUnexpectedEOF, iNdEx |-> preIndex]
    ELSE [err |-> ErrNone, iNdEx |-> ToInt(sum)]

\* skippy, err := skipTx(dAtA[iNdEx:]); if err != nil { return err }
\* if skippy < 0 { return ErrInvalidLengthTx }
SkipChecks(buf, preIndex, sk) ==
    IF sk.err # ErrNone THEN [err |-> sk.err, iNdEx |-> preIndex]
    ELSE IF IsNeg(sk.n) THEN [err |-> ErrInvalidLengthTx, iNdEx |-> preIndex]
    ELSE SkipAdvance(buf, preIndex, AddInt64(preIndex, sk.n))

\* The default branch of Unmarshal's switch: skip the field that starts at preIndex.
SkipUnknown(buf, preIndex) ==
    SkipChecks(buf, preIndex, skipTx(SliceFrom(buf, preIndex)))

ReadFail(e, iNdEx) == [err |-> e, val |-> <<>>, iNdEx |-> iNdEx]

\* A reader that takes dAtA[iNdEx:postIndex-1] for the payload.
BytesUpToShort(buf, iNdEx, postIndex) ==
    IF IsNeg(postIndex) THEN ReadFail(ErrInvalidLengthTx, iNdEx)
    ELSE IF ToInt(postIndex) > Len(buf) THEN ReadFail(ErrUnexpectedEOF, iNdEx)
    ELSE [err |-> ErrNone, val |-> SubSeq(buf, iNdEx + 1, ToInt(postIndex) - 1),
          iNdEx |-> ToInt(postIndex)]

\* if postIndex < 0 { ErrInvalidLengthTx }; if postIndex > l { io.ErrUnexpectedEOF }
\* ... dAtA[iNdEx:postIndex] ...; iNdEx = postIndex
BytesUpTo(buf, iNdEx, postIndex) ==
    IF IsNeg(postIndex) THEN ReadFail(ErrInvalidLengthTx, iNdEx)
    ELSE IF ToInt(postIndex) > Len(buf) THEN ReadFail(ErrUnexpectedEOF, iNdEx)
    ELSE [err |-> ErrNone, val |-> SubSeq(buf, iNdEx + 1, ToInt(postIndex)),
          iNdEx |-> ToInt(postIndex)]

\* if byteLen < 0 { return ErrInvalidLengthTx }; postIndex := iNdEx + byteLen
BytesAfterLength(buf, ln) ==
    IF ln.err # ErrNone THEN ReadFail(ln.err, ln.iNdEx)
    ELSE IF IsNeg(ln.v) THEN ReadFail(ErrInvalidLengthTx, ln.iNdEx)
    ELSE BytesUpTo(buf, ln.iNdEx, AddInt64(ln.iNdEx, ln.v))

\* The body of a length-delimited case: the length varint, its checks, and the
\* payload dAtA[iNdEx:postIndex].
ReadBytes(buf, iNdEx) ==
    BytesAfterLength(buf, readVarint(buf, iNdEx, 0, Zero64))

\* An assignment that appends to the value the field holds.
SetBytesAppend(old, data) == Bytes(old.b \o data)

\* m.F = append(m.F[:0], data...); if m.F == nil { m.F = []byte{} }
SetBytes(old, data) == Bytes(data)

\* if wireType == 4 { error }; if fieldNum <= 0 { error }
TagChecks(tag) ==
    IF tag.err # ErrNone
    THEN [err |-> tag.err, fieldNum |-> 0, wireType |-> 0, iNdEx |-> tag.iNdEx]
    ELSE IF WireType(tag.v) = 4
    THEN [err |-> ErrEndGroup, fieldNum |-> 0, wireType |-> 4, iNdEx |-> tag.iNdEx]
    ELSE [err |-> IF FieldNum(tag.v) <= 0 THEN ErrIllegalTag ELSE ErrNone,
          fieldNum |-> FieldNum(tag.v), wireType |-> WireType(tag.v),
          iNdEx |-> tag.iNdEx]

\* The head of one iteration of Unmarshal's loop: the tag and its two checks.
ReadTag(buf, iNdEx) == TagChecks(readVarint(buf, iNdEx, 0, Zero64))

\* The cases of the switch on fieldNum, by the type of the destination: the
\* Response messages have none, Any has its type identifier and its bytes.
KnownFields(type) ==
    CASE type = "Grant" -> {1, 2, 3}
      [] type = "Revoke" -> {1, 2}
      [] type = "Any" -> {1, 2}
      [] OTHER -> {}

\* The assignment of a byte (or string) field.
Assign(m, fieldNum, val) ==
    IF m.type = "Any"
    THEN IF fieldNum = 1 THEN [m EXCEPT !.TypeUrl = val]
         ELSE [m EXCEPT !.Value = SetBytes(m.Value, val)]
    ELSE IF fieldNum = 1 THEN [m EXCEPT !.Granter = SetBytes(m.Granter, val)]
         ELSE [m EXCEPT !.Grantee = SetBytes(m.Grantee, val)]

\* if m.Allowance == nil { m.Allowance = &types.Any{} }
AllowanceOf(m) == IF m.Allowance.nil THEN AnyOf(<<>>, NilBytes) ELSE m.Allowance

\* After the loop: if iNdEx > l { return io.ErrUnexpectedEOF }; return nil
Finish(buf, iNdEx, m) ==
    [err |-> IF iNdEx > Len(buf) THEN ErrUnexpectedEOF ELSE ErrNone, m |-> m]

RECURSIVE UnmarshalFrom(_, _, _)

\* After skipTx and its checks: return the error or go on at the new cursor.
UnmarshalSkipped(buf, m, sk) ==
    IF sk.err # ErrNone THEN [err |-> sk.err, m |-> m]
    ELSE UnmarshalFrom(buf, sk.iNdEx, m)

\* case 3 of MsgGrantFeeAllowance, sub being m.Allowance.Unmarshal(payload):
\* if err != nil { return err }; iNdEx = postIndex
UnmarshalAllowance(buf, m, postIndex, sub) ==
    IF sub.err # ErrNone THEN [err |-> sub.err, m |-> [m EXCEPT !.Allowance = sub.m]]
    ELSE UnmarshalFrom(buf, postIndex, [m EXCEPT !.Allowance = sub.m])

\* A known field whose payload rb is read: assign it and go on after it.
UnmarshalBytes(buf, m, fieldNum, rb) ==
    IF rb.err # ErrNone THEN [err |-> rb.err, m |-> m]
    ELSE IF m.type = "Grant" /\ fieldNum = 3
    THEN UnmarshalAllowance(buf, m, rb.iNdEx,
                            UnmarshalFrom(rb.val, 0, AllowanceOf(m)))
    ELSE UnmarshalFrom(buf, rb.iNdEx, Assign(m, fieldNum, rb.val))

\* One iteration of Unmarshal's loop, t being the tag read at preIndex.
UnmarshalField(buf, preIndex, m, t) ==
    IF t.err # ErrNone THEN [err |-> t.err, m |-> m]
    ELSE IF t.fieldNum \notin KnownFields(m.type)
    THEN UnmarshalSkipped(buf, m, SkipUnknown(buf, preIndex))
    ELSE IF t.wireType # 2 THEN [err |-> ErrWrongWireType, m |-> m]
    ELSE UnmarshalBytes(buf, m, t.fieldNum, ReadBytes(buf, t.iNdEx))

\* for iNdEx < l { ... }: the Unmarshal methods of MsgGrantFeeAllowance,
\* MsgRevokeFeeAllowance, the two Response messages and Any, which differ in
\* the cases of the switch only.
UnmarshalFrom(buf, iNdEx, m) ==
    IF iNdEx >= Len(buf) THEN Finish(buf, iNdEx, m)
    ELSE UnmarshalField(buf, iNdEx, m, ReadTag(buf, iNdEx))

\* m.Unmarshal(dAtA)
Unmarshal(buf, m) == UnmarshalFrom(buf, 0, m)

----------------------------------------------------------------------------
(* Query router                                                            *)

\* sdk.Querier values: nil, a querier passed to AddRoute, or the closure that
\* RegisterService builds over (sd, handler).
NilQuerier == [kind |-> "nil", id |-> 0, sd |-> "", impl |-> 0]

Querier(id) == [kind |-> "querier", id |-> id, sd |-> "", impl |-> 0]

ServiceQuerier(sd, impl) == [kind |-> "service", id |-> 0, sd |-> sd, impl |-> impl]

\* "cosmos.feegrant.v1beta1.Msg"
MsgServiceName ==
    <<"c","o","s","m","o","s",".","f","e","e","g","r","a","n","t",".",
      "v","1","b","e","t","a","1",".","M","s","g">>

GrantFeeAllowanceName ==
    <<"G","r","a","n","t","F","e","e","A","l","l","o","w","a","n","c","e">>

RevokeFeeAllowanceName ==
    <<"R","e","v","o","k","e","F","e","e","A","l","l","o","w","a","n","c","e">>

\* _Msg_serviceDesc
MsgServiceDesc ==
    [ServiceName |-> MsgServiceName,
     Methods |-> <<[MethodName |-> GrantFeeAllowanceName,
                    Handler |-> "_Msg_GrantFeeAllowance_Handler"],
                   [MethodName |-> RevokeFeeAllowanceName,
                    Handler |-> "_Msg_RevokeFeeAllowance_Handler"]>>]

\* A descriptor given by a caller: an alphanumeric service name and a method
\* list in which one name occurs twice.
SvcName == <<"s","v","c">>
DoName == <<"D","o">>
GetName == <<"G","e","t">>

SvcServiceDesc ==
    [ServiceName |-> SvcName,
     Methods |-> <<[MethodName |-> DoName, Handler |-> "Do_Handler_1"],
                   [MethodName |-> GetName, Handler |-> "Get_Handler"],
                   [MethodName |-> DoName, Handler |-> "Do_Handler_3"]>>]

ServiceDescs == {"Msg", "svc"}

Desc(sd) == IF sd = "Msg" THEN MsgServiceDesc ELSE SvcServiceDesc

\* in := new(...) of a method handler: the request type it decodes into.
NewRequest(handler) ==
    IF handler = "_Msg_GrantFeeAllowance_Handler" THEN NewGrant ELSE NewRevoke

\* NewQueryRouter: routes: map[string]sdk.Querier{}
EmptyRoutes == [p \in {} |-> NilQuerier]

\* qrt.routes[path] (a missing key reads as nil)
Route(rt, path) == IF path \in DOMAIN rt THEN rt[path] ELSE NilQuerier

\* qrt.routes[path] = q
Store(rt, path, q) ==
    [p \in DOMAIN rt \cup {path} |-> IF p = path THEN q ELSE rt[p]]

PanicRouteChars == "route expressions can only contain alphanumeric characters"
PanicRouteDup == "route has already been initialized"
ErrMethodName == "unexpected method name"
ErrHandlerNotFound == "handler not found"
ErrUnknownRequest == "unknown query path"
ErrHandler == "handler error"
ErrQuerier == "querier error"

AddRouteDupFirst(rt, path, q) ==
    IF Route(rt, path) # NilQuerier
    THEN [routes |-> rt, panic |-> PanicRouteDup]
    ELSE IF ~isAlphaNumeric(path)
    THEN [routes |-> rt, panic |-> PanicRouteChars]
    ELSE [routes |-> Store(rt, path, q), panic |-> ErrNone]

\* QueryRouter.AddRoute: the table after the call and the panic, if any.
AddRouteResult(rt, path, q) ==
    IF ~isAlphaNumeric(path)
    THEN [routes |-> rt, panic |-> PanicRouteChars]
    ELSE IF Route(rt, path) # NilQuerier
    THEN [routes |-> rt, panic |-> PanicRouteDup]
    ELSE [routes |-> Store(rt, path, q), panic |-> ErrNone]

RegisterServiceMethods(rt, sd, impl) ==
    [routes |-> Store(Store(rt, Desc(sd).ServiceName, ServiceQuerier(sd, impl)),
                      Desc(sd).Methods[1].MethodName, ServiceQuerier(sd, impl)),
     panic |-> ErrNone]

\* QueryRouter.RegisterService: qrt.routes[sd.ServiceName] = func(...)
RegisterServiceResult(rt, sd, impl) ==
    [routes |-> Store(rt, Desc(sd).ServiceName, ServiceQuerier(sd, impl)),
     panic |-> ErrNone]

RECURSIVE ScanMethodsLast(_, _, _)
ScanMethodsLast(methods, path0, k) ==
    IF k > Len(methods) THEN 0
    ELSE LET later == ScanMethodsLast(methods, path0, k + 1)
         IN  IF later # 0 THEN later
             ELSE IF methods[k].MethodName # path0 THEN 0 ELSE k

RECURSIVE ScanMethodsFallback(_, _, _)
ScanMethodsFallback(methods, path0, k) ==
    IF k >= Len(methods) THEN Len(methods)
    ELSE IF methods[k].MethodName # path0
    THEN ScanMethodsFallback(methods, path0, k + 1)
    ELSE k

\* for _, md := range sd.Methods { if md.MethodName != path0 { continue } ...
\* the index of the first method whose name is path0, or 0.
RECURSIVE ScanMethods(_, _, _)
ScanMethods(methods, path0, k) ==
    IF k > Len(methods) THEN 0
    ELSE IF methods[k].MethodName # path0 THEN ScanMethods(methods, path0, k + 1)
    ELSE k

\* A result of a querier: response bytes or an error, and the method handlers
\* it called, in order.
QResult(err, bz, calls) == [err |-> err, bz |-> bz, calls |-> calls]

\* The record of one call of a method handler: what it was given, the
\* request it decoded and what it returned.
Call(sd, k, impl, reqBz, req, err, res) ==
    [sd |-> sd, index |-> k, handler |-> Desc(sd).Methods[k].Handler,
     impl |-> impl, data |-> reqBz, req |-> req, err |-> err, res |-> res]

\* if err := dec(in); err != nil { return nil, err }
\* return srv.(MsgServer).Method(ctx, in): its outcome (a response message or
\* an error) is o.
HandlerReturn(sd, k, impl, reqBz, o, dec) ==
    IF dec.err # ErrNone
    THEN [err |-> dec.err, res |-> NewResponse,
          call |-> Call(sd, k, impl, reqBz, dec.m, dec.err, NewResponse)]
    ELSE [err |-> o.err, res |-> o.res,
          call |-> Call(sd, k, impl, reqBz, dec.m, o.err, o.res)]

\* md.Handler(handler, ctx, dec, nil) of a generated method handler, dec
\* being protoCodec.Unmarshal(req.Data, i).
MethodHandler(sd, k, impl, reqBz, o) ==
    HandlerReturn(sd, k, impl, reqBz, o,
                  Unmarshal(reqBz, NewRequest(Desc(sd).Methods[k].Handler)))

\* if err != nil { return nil, err }; return protoCodec.Marshal(res)
ServiceReturn(r) ==
    IF r.err # ErrNone THEN QResult(r.err, <<>>, <<r.call>>)
    ELSE QResult(ErrNone, Marshal(r.res), <<r.call>>)

\* The method found at index k of sd.Methods is called; with none found (k = 0):
\* return nil, sdkerrors.Wrapf(sdkerrors.ErrUnknownRequest, ...)
ServiceMethod(sd, impl, k, reqBz, o) ==
    IF k = 0 THEN QResult(ErrUnknownRequest, <<>>, <<>>)
    ELSE ServiceReturn(MethodHandler(sd, k, impl, reqBz, o))

\* The closure RegisterService stores, applied to (path, req).
ServiceCall(sd, impl, path, reqBz, o) ==
    ServiceMethod(sd, impl, ScanMethods(Desc(sd).Methods, path[1], 1), reqBz, o)

\* querier(ctx, path, req) for any querier of the table; a querier given to
\* AddRoute answers o (bytes or an error).
QuerierCall(q, path, reqBz, o) ==
    IF q.kind = "service" THEN ServiceCall(q.sd, q.impl, path, reqBz, o)
    ELSE QResult(o.err, IF o.err = ErrNone THEN o.bz ELSE <<>>, <<>>)

IResult(err, lookups, calls, resBz, reply) ==
    [err |-> err, lookups |-> lookups, calls |-> calls, resBz |-> resBz,
     reply |-> reply]

\* return protoCodec.Unmarshal(resBz, reply), u being its result.
InvokeReply(lookups, r, u) == IResult(u.err, lookups, r.calls, r.bz, u.m)

\* resBz, err := querier(...); if err != nil { return err }
InvokeReturn(lookups, r, reply) ==
    IF r.err # ErrNone THEN IResult(r.err, lookups, r.calls, <<>>, reply)
    ELSE InvokeReply(lookups, r, Unmarshal(r.bz, reply))

\* if querier == nil { return fmt.Errorf("handler not found for %s", path[1]) }
\* reqBz, err := protoCodec.Marshal(args); querier(q.ctx, path[2:], ...)
InvokeRoute(path, querier, args, reply, o) ==
    IF querier = NilQuerier
    THEN IResult(ErrHandlerNotFound, <<path[2]>>, <<>>, <<>>, reply)
    ELSE InvokeReturn(<<path[2]>>,
                      QuerierCall(querier, SliceFrom(path, 2), Marshal(args), o),
                      reply)

\* if len(path) != 3 { return fmt.Errorf("unexpected method name %s", method) }
\* querier := q.Route(path[1])
InvokePath(rt, path, args, reply, o) ==
    IF Len(path) # 3 THEN IResult(ErrMethodName, <<>>, <<>>, <<>>, reply)
    ELSE InvokeRoute(path, Route(rt, path[2]), args, reply, o)

InvokeFirstEmpty(rt, method, args, reply, o) ==
    IF Split(method)[1] # <<>>
    THEN IResult(ErrMethodName, <<>>, <<>>, <<>>, reply)
    ELSE InvokePath(rt, Split(method), args, reply, o)

\* QueryServiceTestHelper.Invoke: the error returned, the routes looked up,
\* the method handlers called, and the reply as Unmarshal left it.
\* path := strings.Split(method, "/")
InvokeResult(rt, method, args, reply, o) ==
    InvokePath(rt, Split(method), args, reply, o)

----------------------------------------------------------------------------
(* The router as a state machine                                           *)

MaxQuerier == 1
MaxImpl == 1

Queriers == {NilQuerier} \cup {Querier(id) : id \in 1..MaxQuerier}

Impls == 1..MaxImpl

\* Paths given to AddRoute and Route: alphanumeric ones (one of them the name
\* of the svc descriptor), one with a dash, and the name of the Msg service.
RoutePaths ==
    {<<"a","b","c","1","2","3">>, SvcName, <<"b","a","d","-","p","a","t","h">>,
     MsgServiceName}

FullPath(service, method) == <<"/">> \o service \o <<"/">> \o method

NoSuchName == <<"n","o","s","u","c","h">>

\* Method strings given to Invoke: every "/service/method" over the names in
\* use, and strings that are not of that shape.
InvokePaths ==
    {FullPath(sv, me) :
        sv \in {MsgServiceName, SvcName, NoSuchName},
        me \in {GrantFeeAllowanceName, RevokeFeeAllowanceName, DoName, NoSuchName}}
    \cup {<<"b","a","d","p","a","t","h">>,
          <<>>,
          <<"/">> \o SvcName,
          SvcName \o <<"/">> \o DoName,
          <<"x">> \o FullPath(SvcName, DoName),
          FullPath(SvcName, DoName) \o <<"/">> \o DoName,
          FullPath(SvcName, DoName) \o <<"/">>,
          <<"/", "/">>}

\* Request messages given to Invoke.
InvokeArgs ==
    {[type |-> "Grant", Granter |-> Bytes(<<4>>), Grantee |-> Bytes(<<2, 3>>),
      Allowance |-> AnyOf(<<116>>, Bytes(<<5>>))]}

\* What the code behind a querier may answer: an implementation called by a
\* method handler returns a response message or an error; a querier given
\* to AddRoute returns bytes (well-formed or not) or an error.
Outcomes ==
    {[err |-> ErrHandler, res |-> NewResponse, bz |-> <<>>],
     [err |-> ErrNone, res |-> NewResponse, bz |-> <<>>],
     [err |-> ErrNone,
      res |-> [type |-> "Revoke", Granter |-> Bytes(<<7>>), Grantee |-> NilBytes],
      bz |-> <<10, 5, 7>>]}

Replies == {NewResponse, NewRevoke}

NoCall == IResult(ErrNone, <<>>, <<>>, <<>>, NewResponse)

Observed(op, pre, path, q, sd, impl, args, panic, ret, inv) ==
    [op |-> op, pre |-> pre, path |-> path, q |-> q, sd |-> sd, impl |-> impl,
     args |-> args, panic |-> panic, ret |-> ret, err |-> inv.err,
     lookups |-> inv.lookups, calls |-> inv.calls, resBz |-> inv.resBz,
     reply |-> inv.reply]

\* What the codec steps have produced so far: the writer's panic flag, the
\* count and bytes Marshal returned, the bytes given to Unmarshal, the
\* unknown field inserted into them and where, and Unmarshal's error and
\* destination message.
NoOutput ==
    [panic |-> FALSE, n |-> 0, bz |-> <<>>, input |-> <<>>, unknown |-> <<>>,
     at |-> 0, err |-> ErrNone, m |-> NewResponse]

\* No decoder is running.
NoDecode == [pc |-> "idle"]

CodecIdle ==
    /\ msg = NewResponse
    /\ dAtA = <<>>
    /\ i = 0
    /\ pc = "idle"
    /\ out = NoOutput
    /\ decoder = NoDecode

Init ==
    /\ routes = EmptyRoutes
    /\ last = Observed("NewQueryRouter", EmptyRoutes, <<>>, NilQuerier, "", 0,
                       NewResponse, ErrNone, NilQuerier, NoCall)
    /\ CodecIdle

AddRoute(path, q) ==
    LET r == AddRouteResult(routes, path, q)
    IN  /\ routes' = r.routes
        /\ last' = Observed("AddRoute", routes, path, q, "", 0, NewResponse,
                            r.panic, NilQuerier, NoCall)
        /\ UNCHANGED codecVars

RouteOp(path) ==
    /\ last' = Observed("Route", routes, path, NilQuerier, "", 0, NewResponse,
                        ErrNone, Route(routes, path), NoCall)
    /\ UNCHANGED <<routes, codecVars>>

RegisterService(sd, impl) ==
    LET r == RegisterServiceResult(routes, sd, impl)
    IN  /\ routes' = r.routes
        /\ last' = Observed("RegisterService", routes, Desc(sd).ServiceName,
                            NilQuerier, sd, impl, NewResponse, r.panic,
                            NilQuerier, NoCall)
        /\ UNCHANGED codecVars

Invoke(method, args, reply, o) ==
    /\ last' = Observed("Invoke", routes, method, NilQuerier, "", 0, args,
                        ErrNone, NilQuerier,
                        InvokeResult(routes, method, args, reply, o))
    /\ UNCHANGED <<routes, codecVars>>

Next ==
    \/ \E path \in RoutePaths, q \in Queriers : AddRoute(path, q)
    \/ \E path \in RoutePaths : RouteOp(path)
    \/ \E sd \in ServiceDescs, impl \in Impls : RegisterService(sd, impl)
    \/ \E method \in InvokePaths, args \in InvokeArgs, reply \in Replies,
          o \in Outcomes : Invoke(method, args, reply, o)

Spec == Init /\ [][Next]_vars

----------------------------------------------------------------------------
(* Properties of the router                                                *)

\* The entries of table a and table b agree on every key but p.
SameExcept(a, b, p) ==
    /\ DOMAIN a \ {p} = DOMAIN b \ {p}
    /\ \A x \in DOMAIN a \ {p} : a[x] = b[x]

MethodNamesOf(sd) ==
    {Desc(sd).Methods[k].MethodName : k \in 1..Len(Desc(sd).Methods)}

\* C1: a successful registration writes one key and leaves every other entry
\* as it was: after AddRoute(p, h) on an alphanumeric, unregistered p,
\* Route(p) returns h; after RegisterService(d, impl) the entry keyed by
\* d.ServiceName is d's closure, and no key that is a method name of d is added.
RegistrationWritesOneKey ==
    /\ (last.op = "AddRoute" /\ isAlphaNumeric(last.path)
            /\ Route(last.pre, last.path) = NilQuerier)
       => /\ last.panic = ErrNone
          /\ last.path \in DOMAIN routes
          /\ Route(routes, last.path) = last.q
          /\ SameExcept(routes, last.pre, last.path)
    /\ last.op = "RegisterService"
       => /\ last.panic = ErrNone
          /\ Desc(last.sd).ServiceName \in DOMAIN routes
          /\ routes[Desc(last.sd).ServiceName] = ServiceQuerier(last.sd, last.impl)
          /\ SameExcept(routes, last.pre, Desc(last.sd).ServiceName)
          /\ DOMAIN routes \ DOMAIN last.pre \subseteq {Desc(last.sd).ServiceName}
          /\ \A me \in MethodNamesOf(last.sd) \ {Desc(last.sd).ServiceName} :
                me \in DOMAIN routes => me \in DOMAIN last.pre

\* A service was registered under a new name into a table that already holds
\* a route added by AddRoute.
RegistrationWitness ==
    /\ last.op = "RegisterService"
    /\ Desc(last.sd).ServiceName \notin DOMAIN last.pre
    /\ \E p \in DOMAIN last.pre : last.pre[p].kind = "querier"
    /\ \E p \in DOMAIN routes : routes[p].kind = "querier"

\* C2: AddRoute panics with "only alphanumeric" on a path with another
\* character (also when that path is registered) and with "already
\* initialized" on an alphanumeric registered path; the table is not changed.
AddRouteFailures ==
    last.op = "AddRoute"
    => /\ ~isAlphaNumeric(last.path)
          => last.panic = PanicRouteChars /\ routes = last.pre
       /\ (isAlphaNumeric(last.path) /\ Route(last.pre, last.path) # NilQuerier)
          => last.panic = PanicRouteDup /\ routes = last.pre

\* AddRoute was called on a registered path that is not alphanumeric, and, in
\* a table holding an alphanumeric route, that panicked on the characters.
AddRouteFailureWitness ==
    /\ last.op = "AddRoute"
    /\ ~isAlphaNumeric(last.path)
    /\ Route(last.pre, last.path) # NilQuerier
    /\ last.panic = PanicRouteChars
    /\ \E p \in DOMAIN routes : isAlphaNumeric(p)

\* C3: every key of the route table is alphanumeric.
RouteKeysAlphaNumeric ==
    \A p \in DOMAIN routes : isAlphaNumeric(p)

\* C4: a path mapped to a handler stays mapped to that handler, and a
\* registration under a registered (alphanumeric) name panics as a duplicate.
RoutesNeverReplaced ==
    [][/\ \A p \in DOMAIN routes :
              routes[p] # NilQuerier => Route(routes', p) = routes[p]
       /\ (last'.op \in {"AddRoute", "RegisterService"}
              /\ isAlphaNumeric(last'.path)
              /\ Route(routes, last'.path) # NilQuerier)
          => last'.panic = PanicRouteDup]_vars

\* The form the claim gives a well-formed method string: ["", service, method].
HasServiceMethodForm(method) ==
    Len(Split(method)) = 3 /\ Split(method)[1] = <<>>

\* C5 as stated: Invoke fails as malformed, without a lookup or a call, unless
\* the string splits into exactly ["", service, method].
MalformedUnlessServiceMethodForm ==
    (last.op = "Invoke" /\ ~HasServiceMethodForm(last.path))
    => /\ last.err = ErrMethodName
       /\ last.lookups = <<>>
       /\ last.calls = <<>>
       /\ routes = last.pre

\* C5 (amended): Invoke fails as malformed, without a lookup or a call and
\* with the table unchanged, exactly when the string does not split into 3
\* segments; the first segment is not examined.
MalformedIffNotThreeSegments ==
    last.op = "Invoke"
    => /\ Len(Split(last.path)) # 3
          => /\ last.err = ErrMethodName
             /\ last.lookups = <<>>
             /\ last.calls = <<>>
             /\ last.panic = ErrNone
             /\ routes = last.pre
       /\ Len(Split(last.path)) = 3
          => /\ last.err # ErrMethodName
             /\ last.lookups = <<Split(last.path)[2]>>

\* Invoke was given "/svc" while svc is registered: a lookup would succeed.
MalformedWitness ==
    /\ last.op = "Invoke"
    /\ Len(Split(last.path)) = 2
    /\ last.err = ErrMethodName
    /\ Route(routes, Split(last.path)[2]).kind = "service"

\* C6: for a string of 3 segments, Invoke returns "handler not found" when
\* the service has no route, and "unknown query path" when the route is a
\* registered service none of whose methods has the name; no method handler
\* is called, nothing panics and the table is unchanged.
UnknownRoutes ==
    (last.op = "Invoke" /\ Len(Split(last.path)) = 3)
    => LET service == Split(last.path)[2]
           method == Split(last.path)[3]
           q == Route(last.pre, service)
       IN  /\ q = NilQuerier
              => /\ last.err = ErrHandlerNotFound
                 /\ last.calls = <<>>
                 /\ last.panic = ErrNone
                 /\ routes = last.pre
           /\ (q.kind = "service" /\ method \notin MethodNamesOf(q.sd))
              => /\ last.err = ErrUnknownRequest
                 /\ last.calls = <<>>
                 /\ last.panic = ErrNone
                 /\ routes = last.pre

\* Invoke named a method that a registered service does not have.
UnknownRoutesWitness ==
    /\ last.op = "Invoke"
    /\ Len(Split(last.path)) = 3
    /\ Route(routes, Split(last.path)[2]).kind = "service"
    /\ Split(last.path)[3] = NoSuchName
    /\ last.err = ErrUnknownRequest

\* C7: for "/service/method" with service registered by RegisterService and
\* method a name of its descriptor, Invoke calls one method handler once: the
\* first of the list with that name, on the registered implementation, with
\* a decoder over the marshalled request; Invoke returns that handler's error
\* unchanged, or the encoding of its response.
DispatchFirstMatch ==
    (last.op = "Invoke" /\ Len(Split(last.path)) = 3)
    => LET service == Split(last.path)[2]
           method == Split(last.path)[3]
           q == Route(last.pre, service)
           methods == Desc(q.sd).Methods
           call == last.calls[1]
       IN  (q.kind = "service" /\ method \in MethodNamesOf(q.sd))
           => /\ Len(last.calls) = 1
              /\ call.sd = q.sd /\ call.impl = q.impl
              /\ methods[call.index].MethodName = method
              /\ \A k \in 1..Len(methods) :
                    methods[k].MethodName = method => call.index <= k
              /\ call.handler = methods[call.index].Handler
              /\ call.data = Marshal(last.args)
              /\ call.req = Unmarshal(call.data, NewRequest(call.handler)).m
              /\ call.err # ErrNone => last.err = call.err /\ last.resBz = <<>>
              /\ call.err = ErrNone
                 => last.err = ErrNone /\ last.resBz = Marshal(call.res)
              /\ routes = last.pre

\* Invoke reached the first of the two handlers named Do, which answered a
\* non-empty response.
DispatchWitness ==
    /\ last.op = "Invoke"
    /\ Len(last.calls) = 1
    /\ last.calls[1].handler = "Do_Handler_1"
    /\ last.err = ErrNone
    /\ last.resBz # <<>>
    /\ last.reply.type = "Revoke" /\ last.reply.Granter = Bytes(<<7>>)

----------------------------------------------------------------------------
(* The codec as a state machine: Marshal of a message field by field, then  *)
(* Unmarshal of the bytes into a fresh message, with or without an unknown *)
(* field inserted between the fields.                                      *)

MaxLen == 2
LongLen == 128

\* Payload bytes: values that read as tags of the known fields, a byte with
\* the continuation bit, then small numbers.
PayloadByte(k) ==
    IF k = 1 THEN 10 ELSE IF k = 2 THEN 18 ELSE IF k = 3 THEN 200 ELSE k

RECURSIVE Payload(_)
Payload(n) == IF n = 0 THEN <<>> ELSE Append(Payload(n - 1), PayloadByte(n))

\* Byte fields: nil, empty, of each length up to MaxLen, and one long enough
\* for a length varint of two bytes.
ByteFields ==
    {NilBytes} \cup {Bytes(Payload(n)) : n \in 0..MaxLen}
    \cup {Bytes(Repeat(7, LongLen))}

Allowances ==
    {NilAny, AnyOf(<<>>, NilBytes), AnyOf(<<116>>, Bytes(<<>>)),
     AnyOf(<<116, 47>>, Bytes(<<5, 26>>))}

Messages ==
    {[type |-> "Revoke", Granter |-> a, Grantee |-> b] : a, b \in ByteFields}
    \cup {[type |-> "Grant", Granter |-> a, Grantee |-> b, Allowance |-> c] :
             a, b \in ByteFields, c \in Allowances}

New(type) ==
    IF type = "Grant" THEN NewGrant
    ELSE IF type = "Revoke" THEN NewRevoke ELSE NewResponse

\* Well-formed encoded fields of every skippable wire type, under field
\* numbers 3, 4, 16, 2^29 - 1, 2^31, 2^32 and 2^32 + 1.
EncodedFields ==
    {<<24, 1>>,                                  \* 3, varint
     <<26, 1, 5>>,                               \* 3, length-delimited
     <<32, 150, 1>>,                             \* 4, varint
     <<33, 1, 2, 3, 4, 5, 6, 7, 8>>,             \* 4, 64-bit fixed
     <<34, 2, 10, 18>>,                          \* 4, length-delimited
     <<35, 8, 1, 36>>,                           \* 4, group holding a varint
     <<37, 1, 2, 3, 4>>,                         \* 4, 32-bit fixed
     <<128, 1, 0>>,                              \* 16, varint
     <<248, 255, 255, 255, 15, 0>>,              \* 2^29 - 1, varint
     <<128, 128, 128, 128, 64, 0>>,              \* 2^31, varint
     <<128, 128, 128, 128, 128, 1, 0>>,          \* 2^32, varint
     <<136, 128, 128, 128, 128, 1, 0>>,          \* 2^32 + 1, varint
     <<138, 128, 128, 128, 128, 1, 1, 99>>}      \* 2^32 + 1, length-delimited

\* The tag of an encoded field, as the 64-bit value its varint denotes.
TagOf(f) == readVarint(f, 0, 0, Zero64).v

\* tag >> 3 is positive.
NumberPositive(tag) == tag[1] \div 8 # 0 \/ ~ZeroAbove(tag, 1)

\* tag >> 3 is n, for n below 16.
NumberIs(tag, n) == tag[1] \div 8 = n /\ ZeroAbove(tag, 1)

Declared(type, tag) ==
    \/ NumberIs(tag, 1)
    \/ NumberIs(tag, 2)
    \/ type = "Grant" /\ NumberIs(tag, 3)

\* The encoded fields that a message type does not declare.
UnknownFields(type) ==
    {f \in EncodedFields : NumberPositive(TagOf(f)) /\ ~Declared(type, TagOf(f))}

\* The bytes one byte field takes in an encoding.
FieldBytes(field) ==
    IF Len(field) = 0 THEN 0
    ELSE 1 + (IF Len(field) < 128 THEN 1 ELSE 2) + Len(field)

\* The offsets at which the top-level fields of Marshal(m) start and end.
Boundaries(m, bz) ==
    {0, FieldBytes(m.Granter.b), FieldBytes(m.Granter.b) + FieldBytes(m.Grantee.b),
     Len(bz)}

InsertAt(bz, at, f) == SubSeq(bz, 1, at) \o f \o SubSeq(bz, at + 1, Len(bz))

Writer == [dAtA |-> dAtA, i |-> i, panic |-> out.panic]

SetWriter(st, next) ==
    /\ dAtA' = st.dAtA
    /\ i' = st.i
    /\ out' = [out EXCEPT !.panic = st.panic]
    /\ pc' = next
    /\ UNCHANGED <<msg, routerVars, decoder>>

InitCodec ==
    /\ routes = EmptyRoutes
    /\ last = Observed("NewQueryRouter", EmptyRoutes, <<>>, NilQuerier, "", 0,
                       NewResponse, ErrNone, NilQuerier, NoCall)
    /\ msg \in Messages
    /\ dAtA = <<>>
    /\ i = 0
    /\ pc = "Marshal"
    /\ out = NoOutput
    /\ decoder = NoDecode

\* Marshal: size := m.Size(); dAtA = make([]byte, size); then
\* MarshalToSizedBuffer: i := len(dAtA)
MarshalAlloc ==
    /\ pc = "Marshal"
    /\ SetWriter(NewBuffer(Size(msg)),
                 IF msg.type = "Grant" THEN "Allowance" ELSE "Grantee")

MarshalAllowance ==
    /\ pc = "Allowance"
    /\ SetWriter(WriteAllowance(Writer, msg.Allowance), "Grantee")

MarshalGrantee ==
    /\ pc = "Grantee"
    /\ SetWriter(WriteBytesField(Writer, msg.Grantee.b, 18), "Granter")

MarshalGranter ==
    /\ pc = "Granter"
    /\ SetWriter(WriteBytesField(Writer, msg.Granter.b, 10), "return")

\* return len(dAtA) - i, nil; and in Marshal: return dAtA[:n], nil
MarshalReturn ==
    /\ pc = "return"
    /\ ~out.panic
    /\ LET n == Len(dAtA) - i
       IN  out' = [out EXCEPT !.n = n, !.bz = SubSeq(dAtA, 1, n)]
    /\ pc' = "marshalled"
    /\ UNCHANGED <<msg, dAtA, i, routerVars, decoder>>

\* Unmarshal of the marshalled bytes into a fresh message of the same type.
UnmarshalFresh ==
    /\ pc = "marshalled"
    /\ LET r == Unmarshal(out.bz, New(msg.type))
       IN  out' = [out EXCEPT !.input = out.bz, !.err = r.err, !.m = r.m]
    /\ pc' = "unmarshalled"
    /\ UNCHANGED <<msg, dAtA, i, routerVars, decoder>>

\* Unmarshal of the marshalled bytes with a field the type does not declare
\* inserted at a field boundary.
UnmarshalWithUnknown(f, at) ==
    /\ pc = "marshalled"
    /\ LET input == InsertAt(out.bz, at, f)
           r == Unmarshal(input, New(msg.type))
       IN  out' = [out EXCEPT !.input = input, !.unknown = f, !.at = at,
                              !.err = r.err, !.m = r.m]
    /\ pc' = "unmarshalledUnknown"
    /\ UNCHANGED <<msg, dAtA, i, routerVars, decoder>>

NextCodec ==
    \/ MarshalAlloc
    \/ MarshalAllowance
    \/ MarshalGrantee
    \/ MarshalGranter
    \/ MarshalReturn
    \/ UnmarshalFresh
    \/ \E f \in UnknownFields(msg.type), at \in Boundaries(msg, out.bz) :
          UnmarshalWithUnknown(f, at)

SpecCodec == InitCodec /\ [][NextCodec]_vars

----------------------------------------------------------------------------
(* Properties of the codec                                                 *)

\* Every length-delimited field of m holds at least one byte, those of the
\* Any inside a MsgGrantFeeAllowance included.
AllFieldsNonEmpty(m) ==
    /\ Len(m.Granter.b) > 0
    /\ Len(m.Grantee.b) > 0
    /\ m.type = "Grant" =>
          /\ ~m.Allowance.nil
          /\ Len(m.Allowance.TypeUrl) > 0
          /\ Len(m.Allowance.Value.b) > 0

\* C8: round trip: for a MsgGrantFeeAllowance or MsgRevokeFeeAllowance whose
\* length-delimited fields are all non-empty, Unmarshal of the bytes that
\* Marshal produced, into a fresh message, succeeds and gives a message
\* equal to the original in every field.
RoundTrip ==
    pc = "unmarshalled" /\ AllFieldsNonEmpty(msg) =>
        /\ out.err = ErrNone
        /\ out.m = msg

RoundTripWitness ==
    /\ pc = "unmarshalled"
    /\ msg.type = "Grant"
    /\ AllFieldsNonEmpty(msg)
    /\ Len(msg.Granter.b) >= 128
    /\ out.input = Marshal(msg)
    /\ out.err = ErrNone
    /\ out.m = msg

\* What the fields of m take on the wire: a non-empty field its tag, its
\* length varint and its payload, an empty or absent one nothing.
ExpectedSize(m) ==
    FieldBytes(m.Granter.b) + FieldBytes(m.Grantee.b)
    + (IF m.type = "Grant" /\ ~m.Allowance.nil
       THEN 2 + FieldBytes(m.Allowance.TypeUrl) + FieldBytes(m.Allowance.Value.b)
       ELSE 0)

\* C9: Marshal allocates exactly Size(m) bytes and the back-to-front writer
\* fills them: the cursor stays within 0..Size(m) at every step, no write
\* falls outside the buffer, the cursor ends at 0, the byte count returned is
\* Size(m) (the bytes returned are the whole buffer), and Size(m) is the sum over the non-empty fields of tag length +
\* length-varint length + payload length.
EncodeFillsSize ==
    /\ pc \notin {"idle", "Marshal"} =>
          /\ Len(dAtA) = Size(msg)
          /\ Size(msg) = ExpectedSize(msg)
          /\ i >= 0
          /\ i <= Len(dAtA)
          /\ ~out.panic
    /\ pc \in {"return", "marshalled", "unmarshalled", "unmarshalledUnknown"} =>
          i = 0
    /\ pc \in {"marshalled", "unmarshalled", "unmarshalledUnknown"} =>
          /\ out.n = Size(msg)
          /\ Len(out.bz) = Size(msg)
          /\ out.bz = dAtA

EncodeFillsSizeWitness ==
    /\ pc = "marshalled"
    /\ msg.type = "Grant"
    /\ AllFieldsNonEmpty(msg)
    /\ Len(msg.Granter.b) >= 128
    /\ i = 0
    /\ out.n = Size(msg)
    /\ out.n > 128

\* C10: forward compatibility: a well-formed field whose field number
\* (tag >> 3) is positive and not declared by the message, of wire type
\* varint, 64-bit fixed, length-delimited, group or 32-bit fixed, inserted at
\* a field boundary of a valid encoding, does not make Unmarshal fail, and the
\* known fields decode as they do without it.
UnknownFieldsSkipped ==
    pc = "unmarshalledUnknown" =>
        /\ out.err = ErrNone
        /\ out.m = Unmarshal(out.bz, New(msg.type)).m

\* The byte fields of the two messages and their tags (field 1 and 2, wire
\* type 2).
ByteFieldNames == {"Granter", "Grantee"}

ByteFieldTag(name) == IF name = "Granter" THEN 10 ELSE 18

\* The tags of the top-level fields of an encoding made of length-delimited
\* fields with one-byte tags, from offset k on.
RECURSIVE WireTags(_, _)
WireTags(bz, k) ==
    IF k >= Len(bz) THEN {}
    ELSE {bz[k + 1]}
         \cup WireTags(bz, readVarint(bz, k + 1, 0, Zero64).iNdEx
                            + ToInt(readVarint(bz, k + 1, 0, Zero64).v))

\* The message has been given the byte field as an empty, non-nil value.
SetEmpty(name) == msg.type \in {"Grant", "Revoke"} /\ msg[name] = Bytes(<<>>)

\* Marshal left the field out: the buffer allocated has the size of the
\* message without the field, and the bytes returned hold no tag of it.
LeftOut(name) ==
    /\ pc \notin {"idle", "Marshal"} =>
           Len(dAtA) = ExpectedSize([msg EXCEPT ![name] = NilBytes])
    /\ pc \in {"marshalled", "unmarshalled"} =>
           /\ out.n = ExpectedSize([msg EXCEPT ![name] = NilBytes])
           /\ ByteFieldTag(name) \notin WireTags(out.bz, 0)

\* C15: a zero-length byte field is never written by Marshal (it adds 0 to
\* Size and no tag to the output), and for a message with a byte field set
\* to an empty byte sequence, Unmarshal of the marshalled bytes into a fresh
\* message gives an empty, not a nil, value for the field.
EmptyFieldDecodesEmpty ==
    \A name \in ByteFieldNames :
        SetEmpty(name) =>
            /\ LeftOut(name)
            /\ pc = "unmarshalled" =>
                   out.err = ErrNone /\ out.m[name] = Bytes(<<>>)

\* C15, as the code has it: the field is left out of the encoding, and
\* Unmarshal of the marshalled bytes into a fresh message leaves the field
\* nil, as it is in a fresh message.
EmptyFieldDecodesAbsent ==
    \A name \in ByteFieldNames :
        SetEmpty(name) =>
            /\ LeftOut(name)
            /\ pc = "unmarshalled" =>
                   out.err = ErrNone /\ out.m[name] = NilBytes

EmptyFieldWitness ==
    /\ pc = "unmarshalled"
    /\ msg.type = "Revoke"
    /\ msg.Granter = Bytes(<<>>)
    /\ msg.Grantee = Bytes(<<10, 18>>)
    /\ out.bz = <<18, 2, 10, 18>>
    /\ out.err = ErrNone
    /\ out.m.Granter = NilBytes
    /\ out.m.Grantee = msg.Grantee

----------------------------------------------------------------------------
(* skipTx, step by step                                                    *)

\* dAtA[idx] in Go: the byte, or -1 for an index out of range (a run-time
\* panic).
ByteAt(buf, idx) == IF idx >= 0 /\ idx < Len(buf) THEN buf[idx + 1] ELSE -1

\* v < n for a 64-bit int v and a small non-negative n.
Less(v, n) == IsNeg(v) \/ ToInt(v) < n

\* The frame of a call of skipTx: its parameter, its local variables (iNdEx
\* and length with their 64 bits) and what it returns.
skipTxFrame(buf) ==
    [dAtA |-> buf, l |-> Len(buf), iNdEx |-> Zero64, depth |-> 0, shift |-> 0,
     wire |-> Zero64, length |-> Zero64, n |-> Zero64, err |-> ErrNone]

\* The outcome of a step of a frame f: where it goes on, and the frame.
Goto(f, label) == [pc |-> label, f |-> f]

Panic(f) == [pc |-> "panic", f |-> f]

\* return n, err
skipTxReturn(f, n, err) ==
    [pc |-> "skipTx.return", f |-> [f EXCEPT !.n = n, !.err = err]]

\* uint64(b&0x7F) << shift, or-ed into the groups of acc.
OrShifted(acc, b, shift) ==
    [acc EXCEPT ![(shift \div 7) + 1] = IF shift = 63 THEN b % 2 ELSE b % 128]

\* for iNdEx < l { var wire uint64; for shift := uint(0); ...
\* and after the loop: return 0, io.ErrUnexpectedEOF
skipTxFor(f) ==
    IF Less(f.iNdEx, f.l)
    THEN Goto([f EXCEPT !.wire = Zero64, !.shift = 0], "skipTx.wire")
    ELSE skipTxReturn(f, Zero64, ErrUnexpectedEOF)

\* b := dAtA[iNdEx]; iNdEx++; wire |= (uint64(b) & 0x7F) << shift;
\* if b < 0x80 { break }; shift += 7
skipTxWireByte(f, b) ==
    IF b < 0 THEN Panic(f)
    ELSE Goto([f EXCEPT !.iNdEx = AddInt64(1, f.iNdEx),
                        !.wire = OrShifted(f.wire, b, f.shift),
                        !.shift = IF b < 128 THEN f.shift ELSE f.shift + 7],
              IF b < 128 THEN "skipTx.switch" ELSE "skipTx.wire")

\* One iteration of the tag loop of skipTx.
skipTxWire(f) ==
    IF f.shift >= 64 THEN skipTxReturn(f, Zero64, ErrIntOverflowTx)
    ELSE IF ~Less(f.iNdEx, f.l) THEN skipTxReturn(f, Zero64, ErrUnexpectedEOF)
    ELSE skipTxWireByte(f, ByteAt(f.dAtA, ToInt(f.iNdEx)))

\* A switch that takes a 32-bit fixed field for eight bytes.
skipTxSwitchFixed8(f) ==
    CASE WireType(f.wire) = 0 -> Goto([f EXCEPT !.shift = 0], "skipTx.case0")
      [] WireType(f.wire) = 2 ->
           Goto([f EXCEPT !.length = Zero64, !.shift = 0], "skipTx.case2")
      [] WireType(f.wire) = 3 -> Goto([f EXCEPT !.depth = f.depth + 1], "skipTx.after")
      [] WireType(f.wire) = 4 /\ f.depth > 0 ->
           Goto([f EXCEPT !.depth = f.depth - 1], "skipTx.after")
      [] WireType(f.wire) = 4 /\ f.depth = 0 ->
           skipTxReturn(f, Zero64, ErrUnexpectedEndOfGroupTx)
      [] WireType(f.wire) \in {1, 5} ->
           Goto([f EXCEPT !.iNdEx = AddInt64(8, f.iNdEx)], "skipTx.after")
      [] OTHER -> skipTxReturn(f, Zero64, ErrIllegalWireType)

\* switch wireType { ... }
skipTxSwitch(f) ==
    CASE WireType(f.wire) = 0 -> Goto([f EXCEPT !.shift = 0], "skipTx.case0")
      [] WireType(f.wire) = 1 ->
           Goto([f EXCEPT !.iNdEx = AddInt64(8, f.iNdEx)], "skipTx.after")
      [] WireType(f.wire) = 2 ->
           Goto([f EXCEPT !.length = Zero64, !.shift = 0], "skipTx.case2")
      [] WireType(f.wire) = 3 -> Goto([f EXCEPT !.depth = f.depth + 1], "skipTx.after")
      [] WireType(f.wire) = 4 /\ f.depth = 0 ->
           skipTxReturn(f, Zero64, ErrUnexpectedEndOfGroupTx)
      [] WireType(f.wire) = 4 /\ f.depth > 0 ->
           Goto([f EXCEPT !.depth = f.depth - 1], "skipTx.after")
      [] WireType(f.wire) = 5 ->
           Goto([f EXCEPT !.iNdEx = AddInt64(4, f.iNdEx)], "skipTx.after")
      [] OTHER -> skipTxReturn(f, Zero64, ErrIllegalWireType)

\* iNdEx++; if dAtA[iNdEx-1] < 0x80 { break }; shift += 7
skipTxCase0Byte(f, b) ==
    IF b < 0 THEN Panic(f)
    ELSE Goto([f EXCEPT !.iNdEx = AddInt64(1, f.iNdEx),
                        !.shift = IF b < 128 THEN f.shift ELSE f.shift + 7],
              IF b < 128 THEN "skipTx.after" ELSE "skipTx.case0")

\* One iteration of the loop of case 0.
skipTxCase0(f) ==
    IF f.shift >= 64 THEN skipTxReturn(f, Zero64, ErrIntOverflowTx)
    ELSE IF ~Less(f.iNdEx, f.l) THEN skipTxReturn(f, Zero64, ErrUnexpectedEOF)
    ELSE skipTxCase0Byte(f, ByteAt(f.dAtA, ToInt(f.iNdEx)))

\* b := dAtA[iNdEx]; iNdEx++; length |= (int(b) & 0x7F) << shift; ...
skipTxCase2Byte(f, b) ==
    IF b < 0 THEN Panic(f)
    ELSE Goto([f EXCEPT !.iNdEx = AddInt64(1, f.iNdEx),
                        !.length = OrShifted(f.length, b, f.shift),
                        !.shift = IF b < 128 THEN f.shift ELSE f.shift + 7],
              IF b < 128 THEN "skipTx.length" ELSE "skipTx.case2")

\* One iteration of the length loop of case 2.
skipTxCase2(f) ==
    IF f.shift >= 64 THEN skipTxReturn(f, Zero64, ErrIntOverflowTx)
    ELSE IF ~Less(f.iNdEx, f.l) THEN skipTxReturn(f, Zero64, ErrUnexpectedEOF)
    ELSE skipTxCase2Byte(f, ByteAt(f.dAtA, ToInt(f.iNdEx)))

\* if length < 0 { return 0, ErrInvalidLengthTx }; iNdEx += length
skipTxLength(f) ==
    IF IsNeg(f.length) THEN skipTxReturn(f, Zero64, ErrInvalidLengthTx)
    ELSE Goto([f EXCEPT !.iNdEx = AddInt64(ToInt(f.iNdEx), f.length)],
              "skipTx.after")

\* if iNdEx < 0 { return 0, ErrInvalidLengthTx }
\* if depth == 0 { return iNdEx, nil }
skipTxAfter(f) ==
    IF IsNeg(f.iNdEx) THEN skipTxReturn(f, Zero64, ErrInvalidLengthTx)
    ELSE IF f.depth = 0 THEN skipTxReturn(f, f.iNdEx, ErrNone)
    ELSE Goto(f, "skipTx.for")

----------------------------------------------------------------------------
(* Unmarshal, step by step                                                 *)

\* The frame of a call of m.Unmarshal(dAtA): the destination, the parameter,
\* the local variables and the error returned.
UnmarshalFrame(buf, m) ==
    [dAtA |-> buf, l |-> Len(buf), iNdEx |-> 0, preIndex |-> 0, shift |-> 0,
     wire |-> Zero64, byteLen |-> Zero64, postIndex |-> 0, fieldNum |-> 0,
     m |-> m, err |-> ErrNone]

\* return err
UnmarshalReturn(f, err) == [pc |-> "Unmarshal.return", f |-> [f EXCEPT !.err = err]]

\* for iNdEx < l { preIndex := iNdEx; var wire uint64; ... } and after the
\* loop: if iNdEx > l { return io.ErrUnexpectedEOF }; return nil
UnmarshalFor(f) ==
    IF f.iNdEx < f.l
    THEN Goto([f EXCEPT !.preIndex = f.iNdEx, !.wire = Zero64, !.shift = 0],
              "Unmarshal.wire")
    ELSE UnmarshalReturn(f, IF f.iNdEx > f.l THEN ErrUnexpectedEOF ELSE ErrNone)

\* b := dAtA[iNdEx]; iNdEx++; wire |= uint64(b&0x7F) << shift; ...
UnmarshalWireByte(f, b) ==
    IF b < 0 THEN Panic(f)
    ELSE Goto([f EXCEPT !.iNdEx = f.iNdEx + 1,
                        !.wire = OrShifted(f.wire, b, f.shift),
                        !.shift = IF b < 128 THEN f.shift ELSE f.shift + 7],
              IF b < 128 THEN "Unmarshal.switch" ELSE "Unmarshal.wire")

\* A tag loop whose test for the end of the buffer is off by one.
UnmarshalWireLate(f) ==
    IF f.shift >= 64 THEN UnmarshalReturn(f, ErrIntOverflowTx)
    ELSE IF f.iNdEx > f.l THEN UnmarshalReturn(f, ErrUnexpectedEOF)
    ELSE UnmarshalWireByte(f, ByteAt(f.dAtA, f.iNdEx))

\* One iteration of the tag loop of Unmarshal.
UnmarshalWire(f) ==
    IF f.shift >= 64 THEN UnmarshalReturn(f, ErrIntOverflowTx)
    ELSE IF f.iNdEx >= f.l THEN UnmarshalReturn(f, ErrUnexpectedEOF)
    ELSE UnmarshalWireByte(f, ByteAt(f.dAtA, f.iNdEx))

\* switch fieldNum { case ...: if wireType != 2 { error }; var byteLen int ...
\* default: iNdEx = preIndex ... }, t being the tag and its checks.
UnmarshalSwitchOn(f, t) ==
    IF t.err # ErrNone THEN UnmarshalReturn(f, t.err)
    ELSE IF t.fieldNum \notin KnownFields(f.m.type)
    THEN Goto([f EXCEPT !.iNdEx = f.preIndex, !.fieldNum = t.fieldNum],
              "Unmarshal.default")
    ELSE IF t.wireType # 2 THEN UnmarshalReturn(f, ErrWrongWireType)
    ELSE Goto([f EXCEPT !.fieldNum = t.fieldNum, !.byteLen = Zero64, !.shift = 0],
              "Unmarshal.byteLen")

\* fieldNum := int32(wire >> 3); wireType := int(wire & 0x7); the two checks
\* and the switch.
UnmarshalSwitch(f) ==
    UnmarshalSwitchOn(f, TagChecks([err |-> ErrNone, v |-> f.wire,
                                    iNdEx |-> f.iNdEx]))

\* b := dAtA[iNdEx]; iNdEx++; byteLen |= int(b&0x7F) << shift; ...
UnmarshalByteLenByte(f, b) ==
    IF b < 0 THEN Panic(f)
    ELSE Goto([f EXCEPT !.iNdEx = f.iNdEx + 1,
                        !.byteLen = OrShifted(f.byteLen, b, f.shift),
                        !.shift = IF b < 128 THEN f.shift ELSE f.shift + 7],
              IF b < 128 THEN "Unmarshal.case" ELSE "Unmarshal.byteLen")

\* One iteration of the length loop of a case.
UnmarshalByteLen(f) ==
    IF f.shift >= 64 THEN UnmarshalReturn(f, ErrIntOverflowTx)
    ELSE IF f.iNdEx >= f.l THEN UnmarshalReturn(f, ErrUnexpectedEOF)
    ELSE UnmarshalByteLenByte(f, ByteAt(f.dAtA, f.iNdEx))

\* case 3 after the call, sub being the frame that
\* m.Allowance.Unmarshal(dAtA[iNdEx:postIndex]) returned from:
\* if err != nil { return err }; iNdEx = postIndex
UnmarshalCase3(f, postIndex, sub) ==
    IF sub.err # ErrNone
    THEN UnmarshalReturn([f EXCEPT !.m.Allowance = sub.m], sub.err)
    ELSE Goto([f EXCEPT !.m.Allowance = sub.m, !.iNdEx = postIndex],
              "Unmarshal.for")

\* The rest of a case, rb being the checks of the length and the payload:
\* m.F = append(m.F[:0], dAtA[iNdEx:postIndex]...); iNdEx = postIndex
\* and in case 3: if m.Allowance == nil { m.Allowance = &types.Any{} },
\* then the call of m.Allowance.Unmarshal
UnmarshalCaseOn(f, rb) ==
    IF rb.err # ErrNone THEN UnmarshalReturn(f, rb.err)
    ELSE IF f.m.type = "Grant" /\ f.fieldNum = 3
    THEN Goto([f EXCEPT !.postIndex = rb.iNdEx, !.m.Allowance = AllowanceOf(f.m)],
              "Unmarshal.call")
    ELSE Goto([f EXCEPT !.m = Assign(f.m, f.fieldNum, rb.val),
                        !.iNdEx = rb.iNdEx],
              "Unmarshal.for")

UnmarshalCase(f) ==
    UnmarshalCaseOn(f, BytesAfterLength(f.dAtA, [err |-> ErrNone,
                                                 v |-> f.byteLen,
                                                 iNdEx |-> f.iNdEx]))

\* The rest of the default branch, r being skipTx's result after its checks:
\* if err != nil { return err } ...; iNdEx += skippy
UnmarshalDefaultOn(f, r) ==
    IF r.err # ErrNone THEN UnmarshalReturn(f, r.err)
    ELSE Goto([f EXCEPT !.iNdEx = r.iNdEx], "Unmarshal.for")

\* skippy, err := skipTx(dAtA[iNdEx:]), sk being the frame skipTx returned from.
UnmarshalDefault(f, sk) ==
    UnmarshalDefaultOn(f, SkipChecks(f.dAtA, f.iNdEx, [err |-> sk.err, n |-> sk.n]))

----------------------------------------------------------------------------
(* The decoder as a state machine                                          *)

MaxInput == 3

\* Bytes that short inputs are made of: the tag of field 1 (length-delimited),
\* a length or value of 1, a byte with the continuation bit, and the tags of
\* field 4 as length-delimited, start-group and end-group.
InputBytes == {10, 1, 128, 34, 35, 36}

RECURSIVE Strings(_)
Strings(n) ==
    IF n = 0 THEN {<<>>}
    ELSE Strings(n - 1) \cup
         {Append(b, x) : b \in Strings(n - 1), x \in InputBytes}

\* Well-formed fields of every skippable wire type: those of EncodedFields,
\* nested groups, and a length-delimited field with a two-byte length.
SkipFields ==
    EncodedFields
    \cup {<<35, 36>>,
          <<35, 35, 8, 1, 36, 34, 1, 7, 45, 1, 2, 3, 4, 36>>,
          <<34, 128, 1>> \o Repeat(7, 128)}

\* What may follow a field: nothing, bytes that are no field, a field, and
\* tags that open or close a group.
Trailers ==
    {<<>>, <<0>>, <<128>>, <<255, 255>>, <<36>>, <<35>>, <<10, 1, 7>>}

\* Malformed fields: lengths that pass the end of the buffer, that are
\* negative as an int or wrap the cursor, varints of more than ten bytes,
\* payloads cut short, groups left open or closed without being opened, and
\* the wire types 6 and 7.
MalformedFields ==
    {<<>>, <<34, 5, 1>>, <<34, 1>>, <<35, 34, 5, 1>>,
     <<34, 255, 255, 255, 255, 255, 255, 255, 255, 255, 1>>,
     <<34, 255, 255, 255, 255, 255, 255, 255, 255, 127>>,
     <<34, 128, 128, 128, 128, 128, 128, 128, 128, 128, 128, 1>>,
     <<34, 128, 128, 128, 128, 128, 128, 128, 128, 128, 2>>,
     <<32, 128, 128, 128, 128, 128, 128, 128, 128, 128, 128, 1>>,
     <<160, 128, 128, 128, 128, 128, 128, 128, 128, 128, 128, 1>>,
     <<32>>, <<32, 128>>, <<33, 1, 2>>, <<37, 1>>, <<35, 8, 1>>, <<35, 33, 1>>,
     <<36>>, <<38>>, <<39, 1>>}

\* Inputs of Unmarshal: every short string, the skipper's inputs, and
\* encodings in which known fields repeat, follow unknown ones, or precede a
\* malformed one.
UnmarshalInputs ==
    Strings(MaxInput) \cup SkipFields \cup MalformedFields
    \cup {<<0>>, <<8, 1>>, <<12>>, <<10, 2, 7, 7, 10, 1, 9>>,
          <<10, 2, 7, 7, 18, 1, 5, 10, 0>>,
          <<10, 1, 7, 18, 2, 5, 6, 10, 3, 1>>,
          <<10, 2, 7, 7, 10, 1, 9, 18, 1, 5, 34, 5, 1>>,
          <<10, 1, 7, 35, 8, 1, 36, 18, 1, 5, 10, 128>>,
          <<18, 1, 5, 32, 1, 10, 1, 7, 34, 5, 1>>,
          <<10, 1, 7, 35, 8, 1, 36, 18, 1, 5, 18, 2, 6, 6>>,
          <<10, 1, 7, 26, 4, 10, 2, 116, 47, 26, 2, 18, 0, 26, 1, 10>>,
          <<10, 255, 255, 255, 255, 255, 255, 255, 255, 255, 1>>,
          <<10, 255, 255, 255, 255, 255, 255, 255, 255, 127>>,
          <<10, 128, 128, 128, 128, 128, 128, 128, 128, 128, 2, 18, 1, 5>>,
          <<10, 128, 128, 128, 128, 128, 128, 128, 128, 128, 128, 1>>,
          <<138, 128, 128, 128, 128, 128, 128, 128, 128, 128, 128, 1>>}

\* Destinations of Unmarshal: fresh messages, and one that holds values.
Destinations ==
    {NewGrant, NewRevoke,
     [type |-> "Revoke", Granter |-> Bytes(<<9, 9>>), Grantee |-> Bytes(<<8>>)]}

\* skipTx(field ++ trailer), called on its own.
CallSkipTx(field, trailer) ==
    [pc |-> "skipTx.for", entry |-> "skipTx", input |-> field \o trailer,
     field |-> field, trailer |-> trailer, dst |-> NewResponse,
     active |-> "Unmarshal", Unmarshal |-> UnmarshalFrame(<<>>, NewResponse),
     Allowance |-> UnmarshalFrame(<<>>, NilAny),
     skipTx |-> skipTxFrame(field \o trailer), err |-> ErrNone, n |-> Zero64]

\* m.Unmarshal(buf)
CallUnmarshal(m, buf) ==
    [pc |-> "Unmarshal.for", entry |-> "Unmarshal", input |-> buf,
     field |-> buf, trailer |-> <<>>, dst |-> m,
     active |-> "Unmarshal", Unmarshal |-> UnmarshalFrame(buf, m),
     Allowance |-> UnmarshalFrame(<<>>, NilAny),
     skipTx |-> skipTxFrame(<<>>), err |-> ErrNone, n |-> Zero64]

InitDecode ==
    /\ routes = EmptyRoutes
    /\ last = Observed("NewQueryRouter", EmptyRoutes, <<>>, NilQuerier, "", 0,
                       NewResponse, ErrNone, NilQuerier, NoCall)
    /\ msg = NewResponse
    /\ dAtA = <<>>
    /\ i = 0
    /\ pc = "idle"
    /\ out = NoOutput
    /\ \/ \E field \in SkipFields, trailer \in Trailers :
             decoder = CallSkipTx(field, trailer)
       \/ \E field \in MalformedFields : decoder = CallSkipTx(field, <<>>)
       \/ \E m \in Destinations, buf \in UnmarshalInputs :
             decoder = CallUnmarshal(m, buf)

SetDecoder(d) ==
    /\ decoder' = d
    /\ UNCHANGED <<routerVars, msg, dAtA, i, pc, out>>

\* A step within skipTx.
StepSkipTx(r) == SetDecoder([decoder EXCEPT !.pc = r.pc, !.skipTx = r.f])

\* The frame that runs: that of Unmarshal, or that of m.Allowance.Unmarshal
\* when Unmarshal has called it.
Frame(d) == IF d.active = "Allowance" THEN d.Allowance ELSE d.Unmarshal

\* A step within Unmarshal, or within m.Allowance.Unmarshal.
StepUnmarshal(r) ==
    SetDecoder([decoder EXCEPT !.pc = r.pc, ![decoder.active] = r.f])

AtSkipTxFor ==
    decoder.pc = "skipTx.for" /\ StepSkipTx(skipTxFor(decoder.skipTx))

AtSkipTxWire ==
    decoder.pc = "skipTx.wire" /\ StepSkipTx(skipTxWire(decoder.skipTx))

AtSkipTxSwitch ==
    decoder.pc = "skipTx.switch" /\ StepSkipTx(skipTxSwitch(decoder.skipTx))

AtSkipTxCase0 ==
    decoder.pc = "skipTx.case0" /\ StepSkipTx(skipTxCase0(decoder.skipTx))

AtSkipTxCase2 ==
    decoder.pc = "skipTx.case2" /\ StepSkipTx(skipTxCase2(decoder.skipTx))

AtSkipTxLength ==
    decoder.pc = "skipTx.length" /\ StepSkipTx(skipTxLength(decoder.skipTx))

AtSkipTxAfter ==
    decoder.pc = "skipTx.after" /\ StepSkipTx(skipTxAfter(decoder.skipTx))

\* skipTx returns: to its caller, or to Unmarshal's default branch.
AtSkipTxReturn ==
    /\ decoder.pc = "skipTx.return"
    /\ IF decoder.entry = "skipTx"
       THEN SetDecoder([decoder EXCEPT !.pc = "done", !.n = decoder.skipTx.n,
                                       !.err = decoder.skipTx.err])
       ELSE StepUnmarshal(UnmarshalDefault(Frame(decoder), decoder.skipTx))

AtUnmarshalFor ==
    decoder.pc = "Unmarshal.for" /\ StepUnmarshal(UnmarshalFor(Frame(decoder)))

AtUnmarshalWire ==
    decoder.pc = "Unmarshal.wire" /\ StepUnmarshal(UnmarshalWire(Frame(decoder)))

AtUnmarshalSwitch ==
    /\ decoder.pc = "Unmarshal.switch"
    /\ StepUnmarshal(UnmarshalSwitch(Frame(decoder)))

AtUnmarshalByteLen ==
    /\ decoder.pc = "Unmarshal.byteLen"
    /\ StepUnmarshal(UnmarshalByteLen(Frame(decoder)))

AtUnmarshalCase ==
    decoder.pc = "Unmarshal.case" /\ StepUnmarshal(UnmarshalCase(Frame(decoder)))

\* case 3: m.Allowance.Unmarshal(dAtA[iNdEx:postIndex]) is called.
AtUnmarshalCall ==
    /\ decoder.pc = "Unmarshal.call"
    /\ SetDecoder([decoder EXCEPT
           !.pc = "Unmarshal.for",
           !.active = "Allowance",
           !.Allowance = UnmarshalFrame(
               SubSeq(decoder.Unmarshal.dAtA, decoder.Unmarshal.iNdEx + 1,
                      decoder.Unmarshal.postIndex),
               decoder.Unmarshal.m.Allowance)])

\* default: ... skipTx(dAtA[iNdEx:]) is called.
AtUnmarshalDefault ==
    /\ decoder.pc = "Unmarshal.default"
    /\ SetDecoder([decoder EXCEPT
           !.pc = "skipTx.for",
           !.skipTx = skipTxFrame(SliceFrom(Frame(decoder).dAtA,
                                            Frame(decoder).iNdEx))])

\* Unmarshal returns to its caller, and m.Allowance.Unmarshal to case 3 of
\* Unmarshal.
AtUnmarshalReturn ==
    /\ decoder.pc = "Unmarshal.return"
    /\ IF decoder.active = "Allowance"
       THEN SetDecoder([decoder EXCEPT
                !.active = "Unmarshal",
                !.pc = UnmarshalCase3(decoder.Unmarshal,
                                      decoder.Unmarshal.postIndex,
                                      decoder.Allowance).pc,
                !.Unmarshal = UnmarshalCase3(decoder.Unmarshal,
                                             decoder.Unmarshal.postIndex,
                                             decoder.Allowance).f])
       ELSE SetDecoder([decoder EXCEPT !.pc = "done",
                                       !.err = decoder.Unmarshal.err])

NextDecode ==
    \/ AtSkipTxFor
    \/ AtSkipTxWire
    \/ AtSkipTxSwitch
    \/ AtSkipTxCase0
    \/ AtSkipTxCase2
    \/ AtSkipTxLength
    \/ AtSkipTxAfter
    \/ AtSkipTxReturn
    \/ AtUnmarshalFor
    \/ AtUnmarshalWire
    \/ AtUnmarshalSwitch
    \/ AtUnmarshalByteLen
    \/ AtUnmarshalCase
    \/ AtUnmarshalCall
    \/ AtUnmarshalDefault
    \/ AtUnmarshalReturn

SpecDecode == InitDecode /\ [][NextDecode]_vars

\* The decoder is one thread of control: a step that can be taken is taken.
SpecDecodeFair == SpecDecode /\ WF_vars(NextDecode)

----------------------------------------------------------------------------
(* Properties of the skipper                                               *)

\* skipTx, called on its own, has returned.
SkipTxDone == decoder.pc = "done" /\ decoder.entry = "skipTx"

\* C11: skip exactness: for a well-formed field of wire type varint, 64-bit
\* fixed, length-delimited, group (up to its matching end-group) or 32-bit
\* fixed, followed by any trailer, skipTx returns without error the position
\* of the first byte of the trailer, whatever the trailer holds.
SkipExact ==
    SkipTxDone /\ decoder.field \in SkipFields =>
        /\ decoder.err = ErrNone
        /\ decoder.n = FromInt(Len(decoder.field))

SkipExactWitness ==
    /\ SkipTxDone
    /\ decoder.field = <<35, 35, 8, 1, 36, 34, 1, 7, 45, 1, 2, 3, 4, 36>>
    /\ decoder.trailer = <<36>>
    /\ decoder.err = ErrNone
    /\ decoder.n = FromInt(14)

\* The length varint that follows the first tag of buf.
FirstLength(buf) ==
    readVarint(buf, readVarint(buf, 0, 0, Zero64).iNdEx, 0, Zero64)

\* buf starts with the tag of a length-delimited field and a length varint.
HasLength(buf) ==
    /\ readVarint(buf, 0, 0, Zero64).err = ErrNone
    /\ WireType(TagOf(buf)) = 2
    /\ FirstLength(buf).err = ErrNone

\* The length is negative as an int, or more than the bytes that remain.
LengthOutOfRange(buf) ==
    \/ IsNeg(FirstLength(buf).v)
    \/ ToInt(FirstLength(buf).v) > Len(buf) - FirstLength(buf).iNdEx

\* C12: given a length-delimited field, skipTx fails with ErrInvalidLengthTx
\* when the decoded length is negative as a signed integer and when it is
\* more than the bytes remaining in the buffer, and returns no position in
\* either case.
SkipLengthRejected ==
    SkipTxDone /\ HasLength(decoder.input) /\ LengthOutOfRange(decoder.input) =>
        /\ decoder.err = ErrInvalidLengthTx
        /\ decoder.n = Zero64

----------------------------------------------------------------------------
(* Properties of the varints read by Unmarshal and skipTx                  *)

\* The number of bytes with the continuation bit that buf holds from index
\* from on, one after the other.
RECURSIVE Continuations(_, _)
Continuations(buf, from) ==
    IF from >= Len(buf) \/ buf[from + 1] < 128 THEN 0
    ELSE 1 + Continuations(buf, from + 1)

\* The index after the varint that starts at from.
VarintEnd(buf, from) == from + Continuations(buf, from) + 1

\* v is the integer that the 7-bit groups of buf[from .. to - 1] denote, a
\* value of 64 bits.
Denotes(v, buf, from, to) ==
    /\ to - from <= 10
    /\ \A j \in Groups :
           v[j] = IF j <= to - from THEN buf[from + j] % 128 ELSE 0

\* The call has returned ErrIntOverflowTx.
Overflowed == decoder.pc = "done" /\ decoder.err = ErrIntOverflowTx

\* The input starts with a tag that is followed by a varint: the payload of
\* wire type 0 or the length of wire type 2, which skipTx reads for every
\* field and Unmarshal for the length-delimited fields with a number.
VarintFollowsTag(d) ==
    /\ Continuations(d.input, 0) < 10
    /\ VarintEnd(d.input, 0) <= Len(d.input)
    /\ \/ d.entry = "skipTx" /\ d.input[VarintEnd(d.input, 0)] % 8 \in {0, 2}
       \/ /\ d.entry = "Unmarshal"
          /\ d.input[VarintEnd(d.input, 0)] % 8 = 2
          /\ FieldNum(readVarint(d.input, 0, 0, Zero64).v) > 0

\* C14: every varint read by Unmarshal or skipTx (a tag, a length, the
\* payload of a skipped varint field) fails with ErrIntOverflowTx when more
\* than ten groups are read, that is whenever the encoded value would exceed
\* 64 bits, and no accepted varint yields a value other than the integer its
\* 7-bit groups denote.
VarintsDenoteTheirGroups ==
    /\ decoder.pc = "done" /\ Continuations(decoder.input, 0) >= 10 =>
           Overflowed
    /\ /\ decoder.pc = "done"
       /\ VarintFollowsTag(decoder)
       /\ Continuations(decoder.input, VarintEnd(decoder.input, 0)) >= 10
       => Overflowed
    /\ decoder.pc = "Unmarshal.switch" =>
           Denotes(Frame(decoder).wire, Frame(decoder).dAtA,
                   Frame(decoder).preIndex, Frame(decoder).iNdEx)
    /\ decoder.pc = "Unmarshal.case" =>
           Denotes(Frame(decoder).byteLen, Frame(decoder).dAtA,
                   VarintEnd(Frame(decoder).dAtA, Frame(decoder).preIndex),
                   Frame(decoder).iNdEx)
    /\ decoder.pc = "skipTx.switch" /\ decoder.skipTx.depth = 0 =>
           Denotes(decoder.skipTx.wire, decoder.skipTx.dAtA, 0,
                   ToInt(decoder.skipTx.iNdEx))
    /\ decoder.pc = "skipTx.length" /\ decoder.skipTx.depth = 0 =>
           Denotes(decoder.skipTx.length, decoder.skipTx.dAtA,
                   VarintEnd(decoder.skipTx.dAtA, 0),
                   ToInt(decoder.skipTx.iNdEx))

----------------------------------------------------------------------------
(* Properties of Unmarshal on malformed and repeated fields                *)

\* Unmarshal, called on its own into a MsgGrantFeeAllowance or a
\* MsgRevokeFeeAllowance, has returned.
UnmarshalDone ==
    /\ decoder.pc = "done"
    /\ decoder.entry = "Unmarshal"
    /\ decoder.dst.type \in {"Grant", "Revoke"}

\* buf holds at offset k a byte field of the message in its plain form: the
\* tag of Granter or Grantee, a length of one byte, and that many bytes.
PlainField(buf, k) ==
    /\ k + 2 <= Len(buf)
    /\ buf[k + 1] \in {10, 18}
    /\ buf[k + 2] < 128
    /\ k + 2 + buf[k + 2] <= Len(buf)

\* The well-formed fields with a one-byte tag whose number the type does not
\* declare, and those of them that buf holds at offset k.
PlainUnknown(type) ==
    {f \in SkipFields : f[1] < 128 /\ ~Declared(type, FromInt(f[1]))}

UnknownAt(buf, k, type) ==
    {f \in PlainUnknown(type) :
        k + Len(f) <= Len(buf) /\ SubSeq(buf, k + 1, k + Len(f)) = f}

\* What a message holds after the fields that are well-formed from offset k
\* on, each assignment putting the payload in the place of the old value,
\* and the offset of the first field that is not one of them.
RECURSIVE ChainFrom(_, _, _)
ChainFrom(buf, k, m) ==
    IF PlainField(buf, k)
    THEN ChainFrom(buf, k + 2 + buf[k + 2],
             [m EXCEPT ![IF buf[k + 1] = 10 THEN "Granter" ELSE "Grantee"] =
                           Bytes(SubSeq(buf, k + 3, k + 2 + buf[k + 2]))])
    ELSE IF UnknownAt(buf, k, m.type) # {}
    THEN ChainFrom(buf, k + Len(CHOOSE f \in UnknownAt(buf, k, m.type) : TRUE), m)
    ELSE [m |-> m, at |-> k]

\* The byte fields of m are those of c.
SameByteFields(m, c) == m.Granter = c.Granter /\ m.Grantee = c.Grantee

\* Unmarshal has returned from frame f with the well-formed fields c before
\* the first other field.
NoRollbackOf(f, c) ==
    /\ c.at = f.l => f.err = ErrNone /\ f.m = c.m
    /\ f.err # ErrNone =>
           /\ f.preIndex >= c.at
           /\ f.preIndex = c.at => SameByteFields(f.m, c.m)

\* C16: Unmarshal is not atomic: it takes the fields in wire order and
\* returns at the first malformed one, not before; the known fields assigned
\* before it keep their newly decoded values in the destination, and in a
\* decode that succeeds a later occurrence of a byte field replaces the value
\* of an earlier one, rather than being appended to it.
NoRollback ==
    UnmarshalDone =>
        NoRollbackOf(decoder.Unmarshal, ChainFrom(decoder.input, 0, decoder.dst))

NoRollbackWitness ==
    /\ UnmarshalDone
    /\ decoder.input = <<10, 2, 7, 7, 10, 1, 9, 18, 1, 5, 34, 5, 1>>
    /\ decoder.dst.Grantee = Bytes(<<8>>)
    /\ decoder.err = ErrUnexpectedEOF
    /\ decoder.Unmarshal.preIndex = 10
    /\ decoder.Unmarshal.m.Granter = Bytes(<<9>>)
    /\ decoder.Unmarshal.m.Grantee = Bytes(<<5>>)

----------------------------------------------------------------------------
(* Termination and bounds of Unmarshal and skipTx                          *)

\* The positions within skipTx and within Unmarshal before they return.
SkipTxLabels ==
    {"skipTx.for", "skipTx.wire", "skipTx.switch", "skipTx.case0",
     "skipTx.case2", "skipTx.length", "skipTx.after"}

\* No step has indexed the buffer outside 0 .. len(dAtA) - 1.
NeverOutOfRange == decoder.pc # "panic"

\* Unmarshal has returned, and its cursor or that of the skipTx it called
\* is past the end of the buffer.
CursorPastEnd ==
    /\ decoder.pc = "done"
    /\ decoder.entry = "Unmarshal"
    /\ \/ ~Less(decoder.skipTx.iNdEx, decoder.skipTx.l + 1)
       \/ decoder.Unmarshal.iNdEx > decoder.Unmarshal.l

\* A cursor past the end of the buffer comes with an error.
PastEndIsError == CursorPastEnd => decoder.err # ErrNone

\* A step that comes back to the head of the loop of Unmarshal (or of
\* m.Allowance.Unmarshal) has moved the cursor beyond the start of the field
\* (preIndex).
UnmarshalAdvances ==
    decoder'.pc = "Unmarshal.for" /\ decoder.pc # "Unmarshal.call" =>
        decoder'[decoder'.active].iNdEx > decoder[decoder'.active].preIndex

\* Within skipTx the cursor never moves back, unless it wraps to a negative
\* value, which the test after the switch turns into an error; the head of
\* the loop leads to the tag loop only, and every step of the tag loop that
\* does not return moves the cursor by one: a pass through the loop moves
\* the cursor forward.
SkipTxAdvances ==
    decoder.pc \in SkipTxLabels /\ decoder'.pc \in SkipTxLabels =>
        /\ IsNeg(decoder'.skipTx.iNdEx) => decoder'.pc = "skipTx.after"
        /\ ~IsNeg(decoder'.skipTx.iNdEx) =>
               ToInt(decoder'.skipTx.iNdEx) >= ToInt(decoder.skipTx.iNdEx)
        /\ decoder.pc = "skipTx.for" => decoder'.pc = "skipTx.wire"
        /\ decoder.pc = "skipTx.wire" =>
               decoder'.skipTx.iNdEx = FromInt(ToInt(decoder.skipTx.iNdEx) + 1)

\* Where a byte is read with the cursor at or past the end of the buffer,
\* the step returns an error instead: io.ErrUnexpectedEOF, or
\* ErrIntOverflowTx when ten groups have been read.
ReadsChecked ==
    /\ /\ decoder.pc \in {"skipTx.wire", "skipTx.case0", "skipTx.case2"}
       /\ ~Less(decoder.skipTx.iNdEx, decoder.skipTx.l)
       => /\ decoder'.pc = "skipTx.return"
          /\ decoder'.skipTx.err \in {ErrUnexpectedEOF, ErrIntOverflowTx}
    /\ /\ decoder.pc \in {"Unmarshal.wire", "Unmarshal.byteLen"}
       /\ Frame(decoder).iNdEx >= Frame(decoder).l
       => /\ decoder'.pc = "Unmarshal.return"
          /\ Frame(decoder').err \in {ErrUnexpectedEOF, ErrIntOverflowTx}

----------------------------------------------------------------------------
(* Varints on their own: encodeVarintTx, sovTx and the decoding loop       *)

\* The values a group of seven bits takes in the values encoded.
GroupValues == {0, 127}

\* The 64-bit values whose groups from the k-th on are GroupValues.
RECURSIVE VectorsFrom(_)
VectorsFrom(k) ==
    IF k > 10 THEN {<<>>}
    ELSE {<<IF k = 10 THEN g % 2 ELSE g>> \o t :
              g \in GroupValues, t \in VectorsFrom(k + 1)}

\* The uint64 values encoded: among them 0, 127, 16383, 2^63 - 1, 2^63 and
\* 2^64 - 1, and 1, 128, 129 and 16384.
Uint64s ==
    VectorsFrom(1) \cup {FromInt(1), FromInt(128), FromInt(129), FromInt(16384)}

\* What follows the varint in the buffer that is decoded.
VarintTrailers == {<<>>, <<1>>, <<128>>}

\* A byte that marks the buffer on both sides of the varint.
Margin == 85

\* A buffer with room for the varint of v between two margin bytes.
VarintBuffer(v) ==
    [dAtA |-> <<Margin>> \o Repeat(0, sovTx(v)) \o <<Margin>>,
     i |-> 1 + sovTx(v), panic |-> FALSE]

\* The state of a run: the value, the buffer the encoder wrote and the
\* offset it returned, the bytes decoded and what the decoding loop returned.
VarintRun(v, trailer) ==
    [pc |-> "varint.start", v |-> v, trailer |-> trailer,
     st |-> VarintBuffer(v), input |-> <<>>,
     res |-> [err |-> ErrNone, v |-> Zero64, iNdEx |-> 0]]

\* The bytes the encoder wrote: dAtA[base:offset]
Encoded(d) == SubSeq(d.st.dAtA, d.st.i + 1, 1 + sovTx(d.v))

InitVarint ==
    /\ routes = EmptyRoutes
    /\ last = Observed("NewQueryRouter", EmptyRoutes, <<>>, NilQuerier, "", 0,
                       NewResponse, ErrNone, NilQuerier, NoCall)
    /\ msg = NewResponse
    /\ dAtA = <<>>
    /\ i = 0
    /\ pc = "idle"
    /\ out = NoOutput
    /\ \E v \in Uint64s, trailer \in VarintTrailers :
           decoder = VarintRun(v, trailer)

\* i = encodeVarintTx(dAtA, i, v)
EncodeVarint ==
    /\ decoder.pc = "varint.start"
    /\ SetDecoder([decoder EXCEPT
           !.pc = "varint.encoded",
           !.st = encodeVarintTx(decoder.st, decoder.st.i, decoder.v)])

\* The decoding loop on the bytes written, followed by the trailer.
DecodeVarint ==
    /\ decoder.pc = "varint.encoded"
    /\ SetDecoder([decoder EXCEPT
           !.pc = "varint.decoded",
           !.input = Encoded(decoder) \o decoder.trailer,
           !.res = readVarint(Encoded(decoder) \o decoder.trailer, 0, 0,
                              Zero64)])

\* The decoding loop on the bytes written without the last of them.
DecodeTruncated ==
    /\ decoder.pc = "varint.encoded"
    /\ SetDecoder([decoder EXCEPT
           !.pc = "varint.truncated",
           !.input = SubSeq(Encoded(decoder), 1, Len(Encoded(decoder)) - 1),
           !.res = readVarint(SubSeq(Encoded(decoder), 1,
                                     Len(Encoded(decoder)) - 1), 0, 0, Zero64)])

NextVarint ==
    \/ EncodeVarint
    \/ DecodeVarint
    \/ DecodeTruncated

SpecVarint == InitVarint /\ [][NextVarint]_vars

\* Only the last byte of bz has the continuation bit clear.
OneVarint(bz) ==
    /\ Len(bz) > 0
    /\ bz[Len(bz)] < 128
    /\ \A k \in 1..(Len(bz) - 1) : bz[k] >= 128

\* C13: varint round trip: for every uint64 v the encoder writes exactly
\* sovTx(v) bytes, of which only the last has the continuation bit clear;
\* decoding them returns v and consumes exactly that many bytes; decoding
\* them without the last byte fails with io.ErrUnexpectedEOF.
VarintRoundTrip ==
    /\ decoder.pc \in {"varint.encoded", "varint.decoded", "varint.truncated"} =>
           /\ ~decoder.st.panic
           /\ decoder.st.i = 1
           /\ Len(decoder.st.dAtA) = sovTx(decoder.v) + 2
           /\ decoder.st.dAtA[1] = Margin
           /\ decoder.st.dAtA[Len(decoder.st.dAtA)] = Margin
           /\ Len(Encoded(decoder)) = sovTx(decoder.v)
           /\ OneVarint(Encoded(decoder))
    /\ decoder.pc = "varint.decoded" =>
           /\ decoder.res.err = ErrNone
           /\ decoder.res.v = decoder.v
           /\ decoder.res.iNdEx = sovTx(decoder.v)
    /\ decoder.pc = "varint.truncated" => decoder.res.err = ErrUnexpectedEOF

VarintRoundTripWitness ==
    /\ decoder.pc = "varint.decoded"
    /\ decoder.v = <<127, 127, 127, 127, 127, 127, 127, 127, 127, 1>>
    /\ decoder.trailer = <<128>>
    /\ decoder.input = <<255, 255, 255, 255, 255, 255, 255, 255, 255, 1, 128>>
    /\ decoder.res.v = decoder.v
    /\ decoder.res.iNdEx = 10

====
